---------------------------- MODULE Spec2Model ----------------------------
(***************************************************************************)
(* Model of the resumable JSON scanners of src/common/JSONParsers.{hpp,cpp} *)
(* (ParserPool, ParseFloat, ParseString, SkipWhitespace, ParseArray,        *)
(* ParseContainerArray, ParseObject).                                       *)
(*                                                                          *)
(* A byte span [Begin, End) is a sequence of byte values; the byte at End   *)
(* is the terminator 0 the caller guarantees.  A position is an offset from *)
(* the span's Begin (0 .. Len(span)); nullptr is Null.  A scanner is an     *)
(* operator from the state it reads and the span to a result record         *)
(*   [ret |-> position or Null, err |-> exception name or NoError, ...]     *)
(* that also carries every object the call has written.  After a throw the  *)
(* objects are as the code left them at the throw.                          *)
(*                                                                          *)
(* A float value is the exact decimal the text denotes, [m, e] for m*10^e   *)
(* in lowest terms; strtof's rounding is a function of that value, so equal *)
(* texts and equal decimals give equal floats.  The literals of the model   *)
(* stay inside float's range.                                               *)
(***************************************************************************)
EXTENDS Integers, Sequences, FiniteSets, TLC

\* ------------------------------------------------------------------------
\* Bytes

\* The character set of the C source, for the characters the model writes.
Ord ==
    ("[" :> 91) @@ ("]" :> 93) @@ ("{" :> 123) @@ ("}" :> 125) @@
    ("," :> 44) @@ (":" :> 58) @@ ("\"" :> 34) @@ ("\\" :> 92) @@
    ("/" :> 47) @@ (" " :> 32) @@ ("\t" :> 9) @@ ("\n" :> 10) @@
    ("\r" :> 13) @@ ("\f" :> 12) @@ ("." :> 46) @@ ("+" :> 43) @@
    ("-" :> 45) @@ ("(" :> 40) @@ (")" :> 41) @@ ("_" :> 95) @@
    ("0" :> 48) @@ ("1" :> 49) @@ ("2" :> 50) @@ ("3" :> 51) @@
    ("4" :> 52) @@ ("5" :> 53) @@ ("6" :> 54) @@ ("7" :> 55) @@
    ("8" :> 56) @@ ("9" :> 57) @@
    ("A" :> 65) @@ ("B" :> 66) @@ ("C" :> 67) @@ ("D" :> 68) @@
    ("E" :> 69) @@ ("F" :> 70) @@ ("G" :> 71) @@ ("I" :> 73) @@ ("N" :> 78) @@
    ("P" :> 80) @@ ("T" :> 84) @@ ("X" :> 88) @@ ("Y" :> 89) @@
    ("Z" :> 90) @@
    ("a" :> 97) @@ ("b" :> 98) @@ ("c" :> 99) @@ ("d" :> 100) @@
    ("e" :> 101) @@ ("f" :> 102) @@ ("g" :> 103) @@ ("i" :> 105) @@
    ("l" :> 108) @@ ("m" :> 109) @@ ("n" :> 110) @@ ("o" :> 111) @@
    ("p" :> 112) @@ ("r" :> 114) @@ ("s" :> 115) @@ ("t" :> 116) @@
    ("u" :> 117) @@ ("x" :> 120) @@ ("y" :> 121) @@ ("z" :> 122)

\* The bytes of a text written as a tuple of one-character strings.
Bytes(t) == [i \in 1..Len(t) |-> Ord[t[i]]]

\* *(Begin + b) for a span: past the last byte stands the terminator, and
\* beyond the terminator there is no byte to read.
At(span, b) == IF b = Len(span) THEN 0 ELSE span[b + 1]

\* The bytes from offset b to the terminator.
From(span, b) == SubSeq(span, b + 1, Len(span))

NoError == "none"

\* nullptr, as a position.
Null == -1

\* ParserException::what() of the exceptions: the diagnostic each carries.
What(e) ==
    CASE e = "NotFinished"            -> "Item not finished."
      [] e = "InvalidArrayStart"      -> "Expected '['"
      [] e = "InvalidArraySeparator"  -> "Array, expected ','"
      [] e = "InvalidObjectStart"     -> "Expected '{'"
      [] e = "InvalidKeySeparator"    -> "Object, expected ','"
      [] e = "InvalidKey"             -> "Object, unexpected key."
      [] e = "InvalidValueSeparator"  -> "Object, expected ':'"
      [] e = "RequiredKeyNotGiven"    -> "Object, required key not given."
      [] e = "InvalidFloat"           -> "Invalid float."
      [] e = "StringStart"            -> "Expected '\"'."
      [] e = "StringEscape"           -> "String with unknown escape."
      [] e = "StringHexDigits"        -> "String with invalid hex digits."
      [] e = "StringInvalidCharacter" -> "String with invalid character."

\* ------------------------------------------------------------------------
\* ParserPool and SimpleValueParser

\* A float: m * 10^e with 10 not dividing m, and 0 as [0, 0].
RECURSIVE Dec(_, _)
Dec(m, e) ==
    IF m = 0 THEN [cls |-> "num", m |-> 0, e |-> 0]
    ELSE IF m % 10 = 0 THEN Dec(m \div 10, e + 1)
    ELSE [cls |-> "num", m |-> m, e |-> e]

FloatZero == Dec(0, 0)

\* ParserPool(): an empty buffer, the three parsers as constructed
\* (finished = true; ParseString: count = -1, escaped = began = false)
\* and value-initialised value slots.
PoolInit ==
    [ buffer    |-> << >>,
      fFinished |-> TRUE,  fValue |-> FloatZero,
      sFinished |-> TRUE,  sValue |-> << >>,
      count     |-> -1,    hex_digits |-> <<0, 0, 0, 0>>,
      escaped   |-> FALSE, began  |-> FALSE,
      wFinished |-> TRUE ]

\* setFinished(Endptr, Pool) leaving the buffer as it is.
BufferAfterKept(Endptr, buffer) == buffer

\* SimpleValueParser::setFinished(Endptr, Pool): the buffer after the call.
BufferAfter(Endptr, buffer) == IF Endptr # Null THEN << >> ELSE buffer

\* ------------------------------------------------------------------------
\* SkipWhitespace

\* The white space of isspace() in the C locale.
IsSpaceC(c) == c = 32 \/ (9 <= c /\ c <= 13)

IsSpace(c) == c = 32 \/ c = 9 \/ c = 10 \/ c = 13

RECURSIVE SkipSpaces(_, _)
SkipSpaces(span, b) ==
    IF b # Len(span) /\ IsSpace(At(span, b)) THEN SkipSpaces(span, b + 1)
    ELSE b

\* return setFinished((Begin != End) ? Begin : nullptr, Pool); e is where
\* the loop has stopped.
WsReturn(pool, span, e) ==
    [ pool |-> [pool EXCEPT !.wFinished = (e # Len(span)),
                            !.buffer = BufferAfter(IF e # Len(span) THEN e ELSE Null, @)],
      ret  |-> IF e # Len(span) THEN e ELSE Null,
      err  |-> NoError ]

\* SkipWhitespace::Scan.
WsScan(pool, span, b) == WsReturn(pool, span, SkipSpaces(span, b))

\* ------------------------------------------------------------------------
\* strtof (C library, "C" locale), as ParseFloat::Scan uses it: the value and
\* the number of bytes converted (0 when no conversion is performed).

IsDigit(c) == 48 <= c /\ c <= 57

IsHexDigit(c) == IsDigit(c) \/ (97 <= c /\ c <= 102) \/ (65 <= c /\ c <= 70)

HexVal(c) == IF IsDigit(c) THEN c - 48
             ELSE IF 97 <= c /\ c <= 102 THEN 10 + c - 97
             ELSE 10 + c - 65

Lower(c) == IF 65 <= c /\ c <= 90 THEN c + 32 ELSE c

\* isspace() in the "C" locale.
IsCSpace(c) == c = 32 \/ (9 <= c /\ c <= 13)

IsSign(c) == c = 43 \/ c = 45

RECURSIVE SkipCSpaces(_, _)
SkipCSpaces(s, p) == IF IsCSpace(At(s, p)) THEN SkipCSpaces(s, p + 1) ELSE p

RECURSIVE DigitsEnd(_, _)
DigitsEnd(s, p) == IF IsDigit(At(s, p)) THEN DigitsEnd(s, p + 1) ELSE p

RECURSIVE HexDigitsEnd(_, _)
HexDigitsEnd(s, p) == IF IsHexDigit(At(s, p)) THEN HexDigitsEnd(s, p + 1) ELSE p

\* The number the digits of s in [p, q) denote in the given base, after acc.
RECURSIVE DigitsVal(_, _, _, _, _)
DigitsVal(s, p, q, base, acc) ==
    IF p >= q THEN acc
    ELSE DigitsVal(s, p + 1, q, base, acc * base + HexVal(At(s, p)))

\* Whether the bytes of s at p spell the lower-case word w, in either case.
Spells(s, p, w) == \A i \in 1..Len(w) : Lower(At(s, p + i - 1)) = w[i]

\* The digits after a point: i is the end of the digits before it, f the
\* end of the digits after it (i itself when there is no point).
FracLen(i, f) == IF f > i THEN f - i - 1 ELSE 0

\* An exponent part at p, introduced by the letter mark (lower case), with
\* its digits in [q, r): its end and value, or the place p itself and 0 when
\* there is none.
ExponentValue(s, p, mark, q, r) ==
    IF Lower(At(s, p)) = mark /\ r > q
    THEN [end |-> r,
          val |-> IF At(s, p + 1) = 45 THEN 0 - DigitsVal(s, q, r, 10, 0)
                  ELSE DigitsVal(s, q, r, 10, 0)]
    ELSE [end |-> p, val |-> 0]

ExponentDigits(s, p, mark, q) == ExponentValue(s, p, mark, q, DigitsEnd(s, q))

ExponentAt(s, p, mark) ==
    ExponentDigits(s, p, mark, IF IsSign(At(s, p + 1)) THEN p + 2 ELSE p + 1)

RECURSIVE NCharEnd(_, _)
NCharEnd(s, p) ==
    IF IsDigit(At(s, p)) \/ At(s, p) = 95 \/
       (97 <= Lower(At(s, p)) /\ Lower(At(s, p)) <= 122)
    THEN NCharEnd(s, p + 1) ELSE p

\* "nan" at p1, with the n-char-sequence in parentheses ending at q.
NanLen(s, p1, q) ==
    IF At(s, p1 + 3) = 40 /\ At(s, q) = 41 THEN q + 1 ELSE p1 + 3

\* infinity and nan, or no conversion.
StrToFWord(s, p1, sgn) ==
    IF Spells(s, p1, <<105, 110, 102>>)
    THEN [len |-> IF Spells(s, p1 + 3, <<105, 110, 105, 116, 121>>)
                  THEN p1 + 8 ELSE p1 + 3,
          val |-> [cls |-> "inf", m |-> sgn, e |-> 0]]
    ELSE IF Spells(s, p1, <<110, 97, 110>>)
    THEN [len |-> NanLen(s, p1, NCharEnd(s, p1 + 4)),
          val |-> [cls |-> "nan", m |-> 0, e |-> 0]]
    ELSE [len |-> 0, val |-> FloatZero]

\* decimal: digits with an optional point (di, df the ends of the digits
\* before and after it), e exponent dx.
DecResult(sgn, dm, nfr, dx) ==
    [len |-> dx.end, val |-> Dec(sgn * dm, dx.val - nfr)]

DecFrac(s, p1, sgn, di, df) ==
    IF (di - p1) + FracLen(di, df) >= 1
    THEN DecResult(sgn,
                   DigitsVal(s, di + 1, df, 10, DigitsVal(s, p1, di, 10, 0)),
                   FracLen(di, df), ExponentAt(s, df, 101))
    ELSE StrToFWord(s, p1, sgn)

DecInt(s, p1, sgn, di) ==
    DecFrac(s, p1, sgn, di, IF At(s, di) = 46 THEN DigitsEnd(s, di + 1) ELSE di)

\* hexadecimal: 0x, hex digits with an optional point (hi, hf the ends of
\* the digits before and after it), p exponent hx; "0x" with no digit is the
\* decimal 0.
HexResult(sgn, hm, hfr, hx) ==
    [len |-> hx.end,
     val |-> [cls |-> "hex", m |-> sgn * hm, e |-> hx.val - 4 * hfr]]

HexFrac(s, p1, sgn, hi, hf) ==
    IF (hi - (p1 + 2)) + FracLen(hi, hf) >= 1
    THEN HexResult(sgn,
                   DigitsVal(s, hi + 1, hf, 16, DigitsVal(s, p1 + 2, hi, 16, 0)),
                   FracLen(hi, hf), ExponentAt(s, hf, 112))
    ELSE DecInt(s, p1, sgn, DigitsEnd(s, p1))

HexInt(s, p1, sgn, hi) ==
    HexFrac(s, p1, sgn, hi, IF At(s, hi) = 46 THEN HexDigitsEnd(s, hi + 1) ELSE hi)

\* The number at p1, after the sign.
StrToFUnsigned(s, p1, sgn) ==
    IF At(s, p1) = 48 /\ Lower(At(s, p1 + 1)) = 120
    THEN HexInt(s, p1, sgn, HexDigitsEnd(s, p1 + 2))
    ELSE DecInt(s, p1, sgn, DigitsEnd(s, p1))

\* The optional sign at p0, after the white space.
StrToFSigned(s, p0) ==
    StrToFUnsigned(s, IF IsSign(At(s, p0)) THEN p0 + 1 ELSE p0,
                   IF At(s, p0) = 45 THEN 0 - 1 ELSE 1)

StrToF(s) == StrToFSigned(s, SkipCSpaces(s, 0))

\* ------------------------------------------------------------------------
\* ParseFloat

\* The characters ParseFloat::Scan takes for parts of a number.
IsFloatChar(c) ==
    IsDigit(c) \/ c = 46 \/ c = 101 \/ c = 69 \/ c = 45 \/ c = 43

\* while (Begin != end && IsFloatChar(*Begin)) ++Begin;
RECURSIVE FloatRunUpTo(_, _, _)
FloatRunUpTo(span, b, end) ==
    IF b # end /\ IsFloatChar(At(span, b)) THEN FloatRunUpTo(span, b + 1, end)
    ELSE b

\* while (IsFloatChar(*Begin)) Pool.buffer.push_back(*Begin++);
\* the terminator at End stops the loop.
RECURSIVE FloatRunEnd(_, _)
FloatRunEnd(span, b) ==
    IF IsFloatChar(At(span, b)) THEN FloatRunEnd(span, b + 1) ELSE b

\* "Copy good chars to buffer. Either end cut off or invalid.": g is where
\* the run of number characters from b ends.
FloatScanCopy(pool, span, b, g) ==
    IF g # Len(span)
    THEN [pool |-> [pool EXCEPT !.buffer = SubSeq(span, b + 1, g)],
          ret |-> Null, err |-> "InvalidFloat"]
    ELSE [pool |-> [pool EXCEPT !.buffer = SubSeq(span, b + 1, g),
                                !.fFinished = FALSE],
          ret |-> Null, err |-> NoError]

\* The empty buffer: out = strtof(Begin, &end) has given r.
FloatScanDirect(pool, span, b, r) ==
    IF r.len # 0 /\ b + r.len # Len(span)
    THEN IF FloatRunUpTo(span, b, b + r.len) # b + r.len
         THEN [pool |-> [pool EXCEPT !.fValue = r.val],
               ret |-> Null, err |-> "InvalidFloat"]
         ELSE [pool |-> [pool EXCEPT !.fValue = r.val, !.fFinished = TRUE,
                                     !.buffer = BufferAfter(b + r.len, @)],
               ret |-> b + r.len, err |-> NoError]
    ELSE FloatScanCopy([pool EXCEPT !.fValue = r.val], span, b,
                       FloatRunEnd(span, b))

\* FloatScanConvert content with a number at the start of the text.
FloatScanConvertPrefix(pool, g, r) ==
    IF r.len = 0
    THEN [pool |-> [pool EXCEPT !.fValue = r.val],
          ret |-> Null, err |-> "InvalidFloat"]
    ELSE [pool |-> [pool EXCEPT !.fValue = r.val, !.fFinished = TRUE,
                                !.buffer = BufferAfter(g, @)],
          ret |-> g, err |-> NoError]

\* The buffer, with the run appended, converted: out = strtof(s.c_str(),
\* &end) has given r; g is where the run ended in the span.
FloatScanConvert(pool, g, r) ==
    IF r.len # Len(pool.buffer)
    THEN [pool |-> [pool EXCEPT !.fValue = r.val],
          ret |-> Null, err |-> "InvalidFloat"]
    ELSE [pool |-> [pool EXCEPT !.fValue = r.val, !.fFinished = TRUE,
                                !.buffer = BufferAfter(g, @)],
          ret |-> g, err |-> NoError]

\* "Start of the number is in buffer.": g is where the run of number
\* characters from b ends.
FloatScanBuffered(pool, span, b, g) ==
    IF g = Len(span)
    THEN [pool |-> [pool EXCEPT !.buffer = @ \o SubSeq(span, b + 1, g),
                                !.fFinished = FALSE],
          ret |-> Null, err |-> NoError]
    ELSE FloatScanConvert([pool EXCEPT !.buffer = @ \o SubSeq(span, b + 1, g)],
                          g, StrToF(pool.buffer \o SubSeq(span, b + 1, g)))

\* ParseFloat::Scan.
FloatScan(pool, span, b) ==
    IF pool.buffer = << >>
    THEN FloatScanDirect(pool, span, b, StrToF(From(span, b)))
    ELSE FloatScanBuffered(pool, span, b, FloatRunEnd(span, b))

\* ------------------------------------------------------------------------
\* ParseString

\* Utf8 with the two-byte form kept up to 0xFFF.
Utf8WideTwoByte(value) ==
    IF value < 128 THEN <<value>>
    ELSE IF value < 4096
    THEN <<192 + ((value \div 64) % 32), 128 + (value % 64)>>
    ELSE <<224 + ((value \div 4096) % 16), 128 + ((value \div 64) % 64),
           128 + (value % 64)>>

\* The UTF-8 bytes ParseString::scan pushes for the value of a \u escape.
Utf8(value) ==
    IF value < 128 THEN <<value>>
    ELSE IF value < 2048
    THEN <<192 + ((value \div 64) % 32), 128 + (value % 64)>>
    ELSE <<224 + ((value \div 4096) % 16), 128 + ((value \div 64) % 64),
           128 + (value % 64)>>

\* EscapeChar with the escape a of C accepted as well.
EscapeCharWithBell(c) ==
    CASE c = 34 -> 34 [] c = 47 -> 47 [] c = 92 -> 92
      [] c = 98 -> 8  [] c = 102 -> 12 [] c = 110 -> 10
      [] c = 114 -> 13 [] c = 116 -> 9 [] c = 97 -> 7 [] OTHER -> 0

\* The character an escape letter stands for; 0 for an unknown escape.
EscapeChar(c) ==
    CASE c = 34 -> 34 [] c = 47 -> 47 [] c = 92 -> 92
      [] c = 98 -> 8  [] c = 102 -> 12 [] c = 110 -> 10
      [] c = 114 -> 13 [] c = 116 -> 9 [] OTHER -> 0

\* StringStep appending the buffer to the value without emptying it.
StringStepKeepsBuffer(pool, c) ==
    IF ~pool.escaped /\ pool.count = -1
    THEN IF c # 92
         THEN IF c # 34
              THEN IF 31 < c
                   THEN IF Len(pool.buffer) + 1 > Len(pool.sValue)
                        THEN [pool |-> [pool EXCEPT
                                  !.sValue = @ \o Append(pool.buffer, c),
                                  !.buffer = Append(@, c)],
                              done |-> FALSE, err |-> NoError]
                        ELSE [pool |-> [pool EXCEPT !.buffer = Append(@, c)],
                              done |-> FALSE, err |-> NoError]
                   ELSE [pool |-> pool, done |-> FALSE,
                         err |-> "StringInvalidCharacter"]
              ELSE [pool |-> [pool EXCEPT !.sValue = @ \o pool.buffer],
                    done |-> TRUE, err |-> NoError]
         ELSE [pool |-> [pool EXCEPT !.escaped = TRUE],
               done |-> FALSE, err |-> NoError]
    ELSE IF pool.count # -1
    THEN LET hex == [pool.hex_digits EXCEPT ![pool.count + 1] = c]
             n   == pool.count + 1
         IN  IF n < 4
             THEN [pool |-> [pool EXCEPT !.hex_digits = hex, !.count = n],
                   done |-> FALSE, err |-> NoError]
             ELSE IF \E k \in 1..4 : ~IsHexDigit(hex[k])
             THEN [pool |-> [pool EXCEPT !.hex_digits = hex, !.count = n],
                   done |-> FALSE, err |-> "StringHexDigits"]
             ELSE [pool |-> [pool EXCEPT
                       !.hex_digits = hex,
                       !.buffer = @ \o Utf8(DigitsVal(hex, 0, 4, 16, 0)),
                       !.count = -1],
                   done |-> FALSE, err |-> NoError]
    ELSE IF c = 117
    THEN [pool |-> [pool EXCEPT !.count = 0, !.escaped = FALSE],
          done |-> FALSE, err |-> NoError]
    ELSE IF EscapeChar(c) # 0
    THEN [pool |-> [pool EXCEPT !.buffer = Append(@, EscapeChar(c)),
                                !.escaped = FALSE],
          done |-> FALSE, err |-> NoError]
    ELSE [pool |-> pool, done |-> FALSE, err |-> "StringEscape"]

\* ParseString::scan on the byte c: the pool, whether the closing quote was
\* met (done), and the exception.
StringStep(pool, c) ==
    IF ~pool.escaped /\ pool.count = -1
    THEN IF c # 92
         THEN IF c # 34
              THEN IF 31 < c
                   THEN IF Len(pool.buffer) + 1 > Len(pool.sValue)
                        THEN [pool |-> [pool EXCEPT
                                  !.sValue = @ \o Append(pool.buffer, c),
                                  !.buffer = << >>],
                              done |-> FALSE, err |-> NoError]
                        ELSE [pool |-> [pool EXCEPT !.buffer = Append(@, c)],
                              done |-> FALSE, err |-> NoError]
                   ELSE [pool |-> pool, done |-> FALSE,
                         err |-> "StringInvalidCharacter"]
              ELSE [pool |-> [pool EXCEPT !.sValue = @ \o pool.buffer],
                    done |-> TRUE, err |-> NoError]
         ELSE [pool |-> [pool EXCEPT !.escaped = TRUE],
               done |-> FALSE, err |-> NoError]
    ELSE IF pool.count # -1
    THEN LET hex == [pool.hex_digits EXCEPT ![pool.count + 1] = c]
             n   == pool.count + 1
         IN  IF n < 4
             THEN [pool |-> [pool EXCEPT !.hex_digits = hex, !.count = n],
                   done |-> FALSE, err |-> NoError]
             ELSE IF \E k \in 1..4 : ~IsHexDigit(hex[k])
             THEN [pool |-> [pool EXCEPT !.hex_digits = hex, !.count = n],
                   done |-> FALSE, err |-> "StringHexDigits"]
             ELSE [pool |-> [pool EXCEPT
                       !.hex_digits = hex,
                       !.buffer = @ \o Utf8(DigitsVal(hex, 0, 4, 16, 0)),
                       !.count = -1],
                   done |-> FALSE, err |-> NoError]
    ELSE IF c = 117
    THEN [pool |-> [pool EXCEPT !.count = 0, !.escaped = FALSE],
          done |-> FALSE, err |-> NoError]
    ELSE IF EscapeChar(c) # 0
    THEN [pool |-> [pool EXCEPT !.buffer = Append(@, EscapeChar(c)),
                                !.escaped = FALSE],
          done |-> FALSE, err |-> NoError]
    ELSE [pool |-> pool, done |-> FALSE, err |-> "StringEscape"]

RECURSIVE StringLoop(_, _, _)
\* StringNext returning the position of the closing quote itself.
StringNextAtQuote(span, b, r) ==
    IF r.err # NoError
    THEN [pool |-> r.pool, ret |-> Null, err |-> r.err]
    ELSE IF r.done
    THEN [pool |-> [r.pool EXCEPT !.began = FALSE, !.sFinished = TRUE,
                                  !.buffer = BufferAfter(b, @)],
          ret |-> b, err |-> NoError]
    ELSE StringLoop(r.pool, span, b + 1)

\* The body of the loop of ParseString::Scan: scan() has given r on the
\* byte at b.
StringNext(span, b, r) ==
    IF r.err # NoError
    THEN [pool |-> r.pool, ret |-> Null, err |-> r.err]
    ELSE IF r.done
    THEN [pool |-> [r.pool EXCEPT !.began = FALSE, !.sFinished = TRUE,
                                  !.buffer = BufferAfter(b + 1, @)],
          ret |-> b + 1, err |-> NoError]
    ELSE StringLoop(r.pool, span, b + 1)

\* StringLoop that empties the pool's buffer when the span runs out.
StringLoopDropsBuffer(pool, span, b) ==
    IF b = Len(span)
    THEN [pool |-> [pool EXCEPT !.sFinished = FALSE, !.buffer = << >>],
          ret |-> Null, err |-> NoError]
    ELSE StringNext(span, b, StringStep(pool, At(span, b)))

\* The loop of ParseString::Scan from offset b.
StringLoop(pool, span, b) ==
    IF b = Len(span)
    THEN [pool |-> [pool EXCEPT !.sFinished = FALSE], ret |-> Null,
          err |-> NoError]
    ELSE StringNext(span, b, StringStep(pool, At(span, b)))

\* ParseString::Scan without the test of the opening quote.
StringScanAnyStart(pool, span, b) ==
    IF ~pool.began
    THEN StringLoop([pool EXCEPT !.sValue = << >>, !.began = TRUE], span, b + 1)
    ELSE StringLoop(pool, span, b)

\* ParseString::Scan.
StringScan(pool, span, b) ==
    IF ~pool.began
    THEN IF At(span, b) # 34
         THEN [pool |-> [pool EXCEPT !.sValue = << >>], ret |-> Null,
               err |-> "StringStart"]
         ELSE StringLoop([pool EXCEPT !.sValue = << >>, !.began = TRUE],
                         span, b + 1)
    ELSE StringLoop(pool, span, b)

\* ------------------------------------------------------------------------
\* ParseArray<ParseFloat>

\* ParseArray(): began(false), had_comma(false), an empty out, finished.
ArrayInit ==
    [out |-> << >>, began |-> FALSE, had_comma |-> FALSE, finished |-> TRUE]

\* ArraySuspend leaving finished as it is: the suspension is not recorded.
ArraySuspendUnrecorded(arr, pool) ==
    [arr |-> arr, pool |-> pool, ret |-> Null, err |-> NoError]

\* return setFinished(nullptr);
ArraySuspend(arr, pool) ==
    [arr |-> [arr EXCEPT !.finished = FALSE], pool |-> pool,
     ret |-> Null, err |-> NoError]

\* ArrayClose without its "began = false".
ArrayCloseStillBegun(arr, pool, b) ==
    [arr |-> [arr EXCEPT !.finished = TRUE], pool |-> pool,
     ret |-> b + 1, err |-> NoError]

\* ArrayClose stepping over the byte that follows the ']' as well.
ArrayCloseSkipsNext(arr, pool, b) ==
    [arr |-> [arr EXCEPT !.began = FALSE, !.finished = TRUE], pool |-> pool,
     ret |-> b + 2, err |-> NoError]

\* began = false; return setFinished(++Begin);
ArrayClose(arr, pool, b) ==
    [arr |-> [arr EXCEPT !.began = FALSE, !.finished = TRUE], pool |-> pool,
     ret |-> b + 1, err |-> NoError]

ArrayThrow(arr, pool, e) ==
    [arr |-> arr, pool |-> pool, ret |-> Null, err |-> e]

RECURSIVE ArrayLoop(_, _, _, _)
\* ArrayAppend putting the element at the front of the list.
ArrayAppendFront(arr, span, f) ==
    IF f.err # NoError THEN ArrayThrow(arr, f.pool, f.err)
    ELSE IF f.ret = Null THEN ArraySuspend(arr, f.pool)
    ELSE ArrayLoop([arr EXCEPT !.out = <<f.pool.fValue>> \o @,
                               !.had_comma = FALSE],
                   f.pool, span, f.ret)

\* Begin = p.Scan(Begin, End, Pool) has given f: return on nullptr, else
\* out.push_back(value); had_comma = false; and round the loop.
ArrayAppend(arr, span, f) ==
    IF f.err # NoError THEN ArrayThrow(arr, f.pool, f.err)
    ELSE IF f.ret = Null THEN ArraySuspend(arr, f.pool)
    ELSE ArrayLoop([arr EXCEPT !.out = Append(@, f.pool.fValue),
                               !.had_comma = FALSE],
                   f.pool, span, f.ret)

\* ArrayItemAt with the ']' test of the empty array made after a ',' as
\* well: a ']' where the item belongs closes the array.
ArrayItemOrClose(arr, span, w) ==
    IF w.ret = Null THEN ArraySuspend(arr, w.pool)
    ELSE IF At(span, w.ret) = 93 THEN ArrayClose(arr, w.pool, w.ret)
    ELSE ArrayAppend(arr, span, FloatScan(w.pool, span, w.ret))

\* "Now there should be the item to parse.": the skipper has given w.
ArrayItemAt(arr, span, w) ==
    IF w.ret = Null THEN ArraySuspend(arr, w.pool)
    ELSE ArrayAppend(arr, span, FloatScan(w.pool, span, w.ret))

\* The end of the loop's body: skip spaces, scan the item, append it.
ArrayItem(arr, pool, span, b) == ArrayItemAt(arr, span, WsScan(pool, span, b))

\* ArraySeparatorSpaced without its "if (*Begin != ',') throw": whatever
\* follows the element and is no ']' is passed over as the separator.
ArraySeparatorAnyByte(arr, span, w) ==
    IF w.ret = Null THEN ArraySuspend(arr, w.pool)
    ELSE IF At(span, w.ret) = 93 THEN ArrayClose(arr, w.pool, w.ret)
    ELSE ArrayItem([arr EXCEPT !.had_comma = TRUE], w.pool, span, w.ret + 1)

\* The separator that is not the byte at Begin: the skipper has given w.
ArraySeparatorSpaced(arr, span, w) ==
    IF w.ret = Null THEN ArraySuspend(arr, w.pool)
    ELSE IF At(span, w.ret) = 93 THEN ArrayClose(arr, w.pool, w.ret)
    ELSE IF At(span, w.ret) # 44
    THEN ArrayThrow(arr, w.pool, "InvalidArraySeparator")
    ELSE ArrayItem([arr EXCEPT !.had_comma = TRUE], w.pool, span, w.ret + 1)

\* if (!out.empty() && !had_comma): "Comma, maybe surrounded by spaces."
ArraySeparator(arr, pool, span, b) ==
    IF At(span, b) = 44
    THEN ArrayItem([arr EXCEPT !.had_comma = TRUE], pool, span, b + 1)
    ELSE ArraySeparatorSpaced(arr, span, WsScan(pool, span, b))

\* else if (out.empty()): the skipper has given w.
ArrayFirst(arr, span, w) ==
    IF w.ret = Null THEN ArraySuspend(arr, w.pool)
    ELSE IF At(span, w.ret) = 93 THEN ArrayClose(arr, w.pool, w.ret)
    ELSE ArrayItem(arr, w.pool, span, w.ret)

\* while (Begin != End) { ... } return setFinished(nullptr);
ArrayLoop(arr, pool, span, b) ==
    IF b = Len(span) THEN ArraySuspend(arr, pool)
    ELSE IF arr.out # << >> /\ ~arr.had_comma
    THEN ArraySeparator(arr, pool, span, b)
    ELSE IF arr.out = << >>
    THEN ArrayFirst(arr, span, WsScan(pool, span, b))
    ELSE ArrayItem(arr, pool, span, b)

\* ParseArray<ParseFloat>::Scan.
ArrayScan(arr, pool, span, b) ==
    IF ~pool.fFinished
    THEN ArrayAppend(arr, span, FloatScan(pool, span, b))
    ELSE IF ~arr.began
    THEN IF At(span, b) # 91 THEN ArrayThrow(arr, pool, "InvalidArrayStart")
         ELSE ArrayLoop([arr EXCEPT !.began = TRUE, !.had_comma = FALSE],
                        pool, span, b + 1)
    ELSE ArrayLoop(arr, pool, span, b)

\* ParseArray::Swap(Alt): the parser, the caller's Alt and the exception.
ArraySwap(arr, alt) ==
    IF ~arr.finished
    THEN [arr |-> arr, alt |-> alt, err |-> "NotFinished"]
    ELSE [arr |-> [arr EXCEPT !.out = << >>], alt |-> arr.out, err |-> NoError]

\* ------------------------------------------------------------------------
\* ParseContainerArray<ParseArray<ParseFloat>>

\* ParseContainerArray(): its own element parser p, began(false),
\* had_comma(false), an empty out, finished.
CArrayInit ==
    [p |-> ArrayInit, out |-> << >>, began |-> FALSE, had_comma |-> FALSE,
     finished |-> TRUE]

CArraySuspend(ca, pool) ==
    [arr |-> [ca EXCEPT !.finished = FALSE], pool |-> pool,
     ret |-> Null, err |-> NoError]

CArrayClose(ca, pool, b) ==
    [arr |-> [ca EXCEPT !.began = FALSE, !.finished = TRUE], pool |-> pool,
     ret |-> b + 1, err |-> NoError]

CArrayThrow(ca, pool, e) ==
    [arr |-> ca, pool |-> pool, ret |-> Null, err |-> e]

\* out.push_back(Type()); p.Swap(out.back()); had_comma = false;
\* sw is what p.Swap has done.
CArrayPush(ca, sw) ==
    [ca EXCEPT !.p = sw.arr, !.out = Append(@, sw.alt), !.had_comma = FALSE]

RECURSIVE CArrayLoop(_, _, _, _)
\* Begin = p.Scan(Begin, End, Pool) has given e, with the state of p in it.
CArrayAppend(ca, span, e) ==
    IF e.err # NoError THEN CArrayThrow([ca EXCEPT !.p = e.arr], e.pool, e.err)
    ELSE IF e.ret = Null THEN CArraySuspend([ca EXCEPT !.p = e.arr], e.pool)
    ELSE CArrayLoop(CArrayPush(ca, ArraySwap(e.arr, << >>)), e.pool, span, e.ret)

CArrayItemAt(ca, span, w) ==
    IF w.ret = Null THEN CArraySuspend(ca, w.pool)
    ELSE CArrayAppend(ca, span, ArrayScan(ca.p, w.pool, span, w.ret))

CArrayItem(ca, pool, span, b) == CArrayItemAt(ca, span, WsScan(pool, span, b))

CArraySeparatorSpaced(ca, span, w) ==
    IF w.ret = Null THEN CArraySuspend(ca, w.pool)
    ELSE IF At(span, w.ret) = 93 THEN CArrayClose(ca, w.pool, w.ret)
    ELSE IF At(span, w.ret) # 44
    THEN CArrayThrow(ca, w.pool, "InvalidArraySeparator")
    ELSE CArrayItem([ca EXCEPT !.had_comma = TRUE], w.pool, span, w.ret + 1)

CArraySeparator(ca, pool, span, b) ==
    IF At(span, b) = 44
    THEN CArrayItem([ca EXCEPT !.had_comma = TRUE], pool, span, b + 1)
    ELSE CArraySeparatorSpaced(ca, span, WsScan(pool, span, b))

CArrayFirst(ca, span, w) ==
    IF w.ret = Null THEN CArraySuspend(ca, w.pool)
    ELSE IF At(span, w.ret) = 93 THEN CArrayClose(ca, w.pool, w.ret)
    ELSE CArrayItem(ca, w.pool, span, w.ret)

CArrayLoop(ca, pool, span, b) ==
    IF b = Len(span) THEN CArraySuspend(ca, pool)
    ELSE IF ca.out # << >> /\ ~ca.had_comma
    THEN CArraySeparator(ca, pool, span, b)
    ELSE IF ca.out = << >>
    THEN CArrayFirst(ca, span, WsScan(pool, span, b))
    ELSE CArrayItem(ca, pool, span, b)

\* ParseContainerArray<ParseArray<ParseFloat>>::Scan.
CArrayScan(ca, pool, span, b) ==
    IF ~ca.p.finished
    THEN CArrayAppend(ca, span, ArrayScan(ca.p, pool, span, b))
    ELSE IF ~ca.began
    THEN IF At(span, b) # 91 THEN CArrayThrow(ca, pool, "InvalidArrayStart")
         ELSE CArrayLoop([ca EXCEPT !.began = TRUE, !.had_comma = FALSE],
                         pool, span, b + 1)
    ELSE CArrayLoop(ca, pool, span, b)

\* ParseContainerArray::Swap(Alt).
CArraySwap(ca, alt) ==
    IF ~ca.finished
    THEN [arr |-> ca, alt |-> alt, err |-> "NotFinished"]
    ELSE [arr |-> [ca EXCEPT !.out = << >>], alt |-> ca.out, err |-> NoError]

\* ------------------------------------------------------------------------
\* ParseObject<KeyValues<...>, Values>
\*
\* A schema is the tuple of the template's fields, in order:
\*   kind "float"  : KeyValue<key, ParseFloat> / RequiredKeyValue
\*   kind "string" : KeyValue<key, ParseString> / RequiredKeyValue
\*   kind "array"  : KeyContainerValue<key, ParseArray<ParseFloat>> /
\*                   RequiredKeyContainerValue
\* A field index is the code's k (from 0); field k is schema[k + 1].

\* Value<Parser>(): given(false) and a value-initialised value.
DefaultValue(kind) == IF kind = "float" THEN FloatZero ELSE << >>

\* NamelessValues<...> fields as constructed, and as Type() makes them.
RecordInit(schema) ==
    [k \in 1..Len(schema) |->
        [given |-> FALSE, value |-> DefaultValue(schema[k].kind)]]

\* ParseObject(): activating(-1), active(-1), state(NotStarted), finished;
\* parsers holds each field's ScanningKeyValue (given, and the element
\* parser p a KeyContainerValue owns).
ObjectInit(schema) ==
    [ parsers    |-> [k \in 1..Len(schema) |-> [given |-> FALSE, p |-> ArrayInit]],
      out        |-> RecordInit(schema),
      activating |-> -1,
      active     |-> -1,
      state      |-> "NotStarted",
      finished   |-> TRUE ]

\* The C string at the start of a byte sequence: the bytes before the first 0.
RECURSIVE CStr(_)
CStr(t) == IF t = << >> \/ Head(t) = 0 THEN << >> ELSE <<Head(t)>> \o CStr(Tail(t))

\* strcmp(Incoming.c_str(), Key) == 0
StrCmpEqual(incoming, key) == CStr(incoming) = CStr(key)

\* for (size_t k = 0; k < parsers.size(); ++k) ... return: the first of the
\* fields whose key compares equal, or -1 where the code throws InvalidKey.
FirstKey(hits) ==
    IF hits = {} THEN -1 ELSE CHOOSE k \in hits : \A j \in hits : k <= j

\* ParseObject::setActivating.
SetActivating(schema, incoming) ==
    FirstKey({k \in 0..(Len(schema) - 1) :
                 StrCmpEqual(incoming, schema[k + 1].key)})

\* ObjectSuspend leaving finished as it is.
ObjectSuspendUnrecorded(obj, pool) ==
    [obj |-> obj, pool |-> pool, ret |-> Null, err |-> NoError]

\* return setFinished(nullptr);
ObjectSuspend(obj, pool) ==
    [obj |-> [obj EXCEPT !.finished = FALSE], pool |-> pool,
     ret |-> Null, err |-> NoError]

ObjectThrow(obj, pool, e) ==
    [obj |-> obj, pool |-> pool, ret |-> Null, err |-> e]

\* checkPassed asking the key's scanner (skv->Given(), cleared by every
\* Swap) where it asks the record's field (vs->Given()).
CheckPassedByScanner(schema, obj, pool, ptr) ==
    IF \E k \in 1..Len(schema) : schema[k].required /\ ~obj.parsers[k].given
    THEN ObjectThrow(obj, pool, "RequiredKeyNotGiven")
    ELSE [obj |-> [obj EXCEPT !.state = "NotStarted", !.activating = -1,
                             !.active = -1, !.finished = TRUE],
          pool |-> pool, ret |-> ptr, err |-> NoError]

\* checkPassed without the three assignments before its return.
CheckPassedNoReset(schema, obj, pool, ptr) ==
    IF \E k \in 1..Len(schema) : schema[k].required /\ ~obj.out[k].given
    THEN ObjectThrow(obj, pool, "RequiredKeyNotGiven")
    ELSE [obj |-> [obj EXCEPT !.finished = TRUE],
          pool |-> pool, ret |-> ptr, err |-> NoError]

\* ParseObject::checkPassed(Ptr).
CheckPassed(schema, obj, pool, ptr) ==
    IF \E k \in 1..Len(schema) : schema[k].required /\ ~obj.out[k].given
    THEN ObjectThrow(obj, pool, "RequiredKeyNotGiven")
    ELSE [obj |-> [obj EXCEPT !.state = "NotStarted", !.activating = -1,
                             !.active = -1, !.finished = TRUE],
          pool |-> pool, ret |-> ptr, err |-> NoError]

\* KeyValue::Scanner(Pool): Give(), and the pool's parser has given r.
FieldScanned(obj, k, r) ==
    [obj |-> [obj EXCEPT !.parsers[k].given = TRUE],
     pool |-> r.pool, ret |-> r.ret, err |-> r.err]

\* KeyContainerValue::Scanner(Pool): Give(), and the field's own parser p
\* has given r.
FieldScannedOwn(obj, k, r) ==
    [obj |-> [obj EXCEPT !.parsers[k] = [given |-> TRUE, p |-> r.arr]],
     pool |-> r.pool, ret |-> r.ret, err |-> r.err]

\* parsers.Scanner(active, Pool).Scan(Begin, End, Pool): Scanner() sets the
\* field's given, then the scanner bound to the field runs.  With an index
\* that names no field the call has no defined behaviour ("Undefined").
FieldScan(schema, obj, pool, span, b) ==
    IF obj.active < 0 \/ obj.active >= Len(schema)
    THEN [obj |-> obj, pool |-> pool, ret |-> Null, err |-> "Undefined"]
    ELSE IF schema[obj.active + 1].kind = "float"
    THEN FieldScanned(obj, obj.active + 1, FloatScan(pool, span, b))
    ELSE IF schema[obj.active + 1].kind = "string"
    THEN FieldScanned(obj, obj.active + 1, StringScan(pool, span, b))
    ELSE FieldScannedOwn(obj, obj.active + 1,
                         ArrayScan(obj.parsers[obj.active + 1].p, pool, span, b))

\* Swap keeping the value a field already holds: the first occurrence of
\* a key wins.
FieldSwapFirstWins(schema, obj, pool) ==
    LET k == obj.active + 1
        keep == obj.out[k].given
    IN  IF schema[k].kind = "float"
        THEN [obj |-> [obj EXCEPT !.out[k] = [given |-> TRUE,
                                              value |-> IF keep THEN @.value
                                                        ELSE pool.fValue],
                                  !.parsers[k].given = FALSE],
              pool |-> pool, err |-> NoError]
        ELSE IF schema[k].kind = "string"
        THEN [obj |-> [obj EXCEPT !.out[k] = [given |-> TRUE,
                                              value |-> IF keep THEN @.value
                                                        ELSE pool.sValue],
                                  !.parsers[k].given = FALSE],
              pool |-> pool, err |-> NoError]
        ELSE LET sw == ArraySwap(obj.parsers[k].p, << >>)
             IN  IF sw.err # NoError
                 THEN [obj |-> obj, pool |-> pool, err |-> sw.err]
                 ELSE [obj |-> [obj EXCEPT !.out[k] = [given |-> TRUE,
                                                       value |-> IF keep THEN @.value
                                                                 ELSE sw.alt],
                                           !.parsers[k] = [given |-> FALSE, p |-> sw.arr]],
                       pool |-> pool, err |-> NoError]

\* Swap leaving the pool's slot with the default value, whatever the
\* record's field held.
FieldSwapMove(schema, obj, pool) ==
    LET k == obj.active + 1
    IN  IF schema[k].kind = "float"
        THEN [obj |-> [obj EXCEPT !.out[k] = [given |-> TRUE, value |-> pool.fValue],
                                  !.parsers[k].given = FALSE],
              pool |-> [pool EXCEPT !.fValue = FloatZero],
              err |-> NoError]
        ELSE IF schema[k].kind = "string"
        THEN [obj |-> [obj EXCEPT !.out[k] = [given |-> TRUE, value |-> pool.sValue],
                                  !.parsers[k].given = FALSE],
              pool |-> [pool EXCEPT !.sValue = << >>],
              err |-> NoError]
        ELSE LET sw == ArraySwap(obj.parsers[k].p, obj.out[k].value)
             IN  IF sw.err # NoError
                 THEN [obj |-> obj, pool |-> pool, err |-> sw.err]
                 ELSE [obj |-> [obj EXCEPT !.out[k] = [given |-> TRUE, value |-> sw.alt],
                                           !.parsers[k] = [given |-> FALSE, p |-> sw.arr]],
                       pool |-> pool, err |-> NoError]

\* parsers.KeyValue(active)->Swap(out[active], Pool):
\* KeyValue::Swap(ValueStore*, ParserPool&) swaps the pool's value slot with
\* the record's value; KeyContainerValue::Swap calls p.Swap(dst->value).
\* Both then Give() the record's field and clear the key's own given.
FieldSwap(schema, obj, pool) ==
    LET k == obj.active + 1
    IN  IF schema[k].kind = "float"
        THEN [obj |-> [obj EXCEPT !.out[k] = [given |-> TRUE, value |-> pool.fValue],
                                  !.parsers[k].given = FALSE],
              pool |-> [pool EXCEPT !.fValue = obj.out[k].value],
              err |-> NoError]
        ELSE IF schema[k].kind = "string"
        THEN [obj |-> [obj EXCEPT !.out[k] = [given |-> TRUE, value |-> pool.sValue],
                                  !.parsers[k].given = FALSE],
              pool |-> [pool EXCEPT !.sValue = obj.out[k].value],
              err |-> NoError]
        ELSE LET sw == ArraySwap(obj.parsers[k].p, obj.out[k].value)
             IN  IF sw.err # NoError
                 THEN [obj |-> obj, pool |-> pool, err |-> sw.err]
                 ELSE [obj |-> [obj EXCEPT !.out[k] = [given |-> TRUE, value |-> sw.alt],
                                           !.parsers[k] = [given |-> FALSE, p |-> sw.arr]],
                       pool |-> pool, err |-> NoError]

\* The body of the loop of ParseObject::Scan is a sequence of blocks
\* "if (state == X) { ... }" in the order of the states: a block either
\* returns, throws, or sets the state of a later block, which control then
\* falls into.  ObjectState is the block of the state the parser is in.
RECURSIVE ObjectLoop(_, _, _, _, _)
RECURSIVE ObjectState(_, _, _, _, _)

\* ObjectExpectComma taking every byte other than '}' for a ','.
ObjectExpectCommaLax(schema, obj, pool, span, b) ==
    IF At(span, b) = 125 THEN CheckPassed(schema, obj, pool, b + 1)
    ELSE ObjectLoop(schema, [obj EXCEPT !.state = "PreKey"], pool, span, b + 1)

\* if (state == ExpectComma) { ... } and the end of the loop's body.
ObjectExpectComma(schema, obj, pool, span, b) ==
    IF At(span, b) = 125 THEN CheckPassed(schema, obj, pool, b + 1)
    ELSE IF At(span, b) # 44 THEN ObjectThrow(obj, pool, "InvalidValueSeparator")
    ELSE ObjectLoop(schema, [obj EXCEPT !.state = "PreKey"], pool, span, b + 1)

\* if (state == PreComma) { ... }: the skipper has given w.
ObjectPreComma(schema, obj, span, w) ==
    IF w.ret = Null THEN ObjectSuspend(obj, w.pool)
    ELSE ObjectState(schema, [obj EXCEPT !.state = "ExpectComma"],
                     w.pool, span, w.ret)

\* parsers.KeyValue(active)->Swap(out[active], Pool) has given s;
\* active = -1; state = PreComma; b is where the value ended.
ObjectStored(schema, span, b, s) ==
    IF s.err # NoError THEN ObjectThrow(s.obj, s.pool, s.err)
    ELSE ObjectState(schema, [s.obj EXCEPT !.active = -1, !.state = "PreComma"],
                     s.pool, span, b)

\* if (state == ExpectValue) { ... }: the field's scanner has given v.
ObjectExpectValue(schema, span, v) ==
    IF v.err # NoError THEN ObjectThrow(v.obj, v.pool, v.err)
    ELSE IF v.ret = Null THEN ObjectSuspend(v.obj, v.pool)
    ELSE ObjectStored(schema, span, v.ret, FieldSwap(schema, v.obj, v.pool))

\* if (state == PreValue) { ... }: the skipper has given w.
ObjectPreValue(schema, obj, span, w) ==
    IF w.ret = Null THEN ObjectSuspend(obj, w.pool)
    ELSE ObjectState(schema,
                     [obj EXCEPT !.active = obj.activating, !.activating = -1,
                                 !.state = "ExpectValue"],
                     w.pool, span, w.ret)

\* if (state == ExpectColon) { ... }
ObjectExpectColon(schema, obj, pool, span, b) ==
    IF At(span, b) # 58 THEN ObjectThrow(obj, pool, "InvalidKeySeparator")
    ELSE IF b + 1 = Len(span)
    THEN ObjectSuspend([obj EXCEPT !.state = "PreValue"], pool)
    ELSE ObjectState(schema, [obj EXCEPT !.state = "PreValue"], pool, span, b + 1)

\* ObjectPreColon storing ExpectColon before the skipper has found a byte.
ObjectPreColonAdvances(schema, obj, span, w) ==
    IF w.ret = Null
    THEN ObjectSuspend([obj EXCEPT !.state = "ExpectColon"], w.pool)
    ELSE ObjectState(schema, [obj EXCEPT !.state = "ExpectColon"],
                     w.pool, span, w.ret)

\* if (state == PreColon) { ... }: the skipper has given w.
ObjectPreColon(schema, obj, span, w) ==
    IF w.ret = Null THEN ObjectSuspend(obj, w.pool)
    ELSE ObjectState(schema, [obj EXCEPT !.state = "ExpectColon"],
                     w.pool, span, w.ret)

\* ObjectActivate storing the index of the key in active.
ObjectActivateWrongIndex(schema, obj, pool, span, b, a) ==
    IF a = -1 THEN ObjectThrow(obj, pool, "InvalidKey")
    ELSE ObjectState(schema, [obj EXCEPT !.active = a, !.state = "PreColon"],
                     pool, span, b)

\* setActivating(...) has given a; state = PreColon;
ObjectActivate(schema, obj, pool, span, b, a) ==
    IF a = -1 THEN ObjectThrow(obj, pool, "InvalidKey")
    ELSE ObjectState(schema, [obj EXCEPT !.activating = a, !.state = "PreColon"],
                     pool, span, b)

\* if (state == ExpectKey) { ... }: the string parser has given r.
ObjectExpectKey(schema, obj, span, r) ==
    IF r.err # NoError THEN ObjectThrow(obj, r.pool, r.err)
    ELSE IF r.ret = Null THEN ObjectSuspend(obj, r.pool)
    ELSE ObjectActivate(schema, obj, r.pool, span, r.ret,
                        SetActivating(schema, r.pool.sValue))

\* ObjectPreKey without the test for '}'.
ObjectPreKeyNoClose(schema, obj, span, w) ==
    IF w.ret = Null THEN ObjectSuspend(obj, w.pool)
    ELSE ObjectState(schema, [obj EXCEPT !.state = "ExpectKey"],
                     w.pool, span, w.ret)

\* if (state == PreKey) { ... }: the skipper has given w.
ObjectPreKey(schema, obj, span, w) ==
    IF w.ret = Null THEN ObjectSuspend(obj, w.pool)
    ELSE IF At(span, w.ret) = 125
    THEN CheckPassed(schema, obj, w.pool, w.ret + 1)
    ELSE ObjectState(schema, [obj EXCEPT !.state = "ExpectKey"],
                     w.pool, span, w.ret)

ObjectState(schema, obj, pool, span, b) ==
    CASE obj.state = "PreKey" ->
            ObjectPreKey(schema, obj, span, WsScan(pool, span, b))
      [] obj.state = "ExpectKey" ->
            ObjectExpectKey(schema, obj, span, StringScan(pool, span, b))
      [] obj.state = "PreColon" ->
            ObjectPreColon(schema, obj, span, WsScan(pool, span, b))
      [] obj.state = "ExpectColon" ->
            ObjectExpectColon(schema, obj, pool, span, b)
      [] obj.state = "PreValue" ->
            ObjectPreValue(schema, obj, span, WsScan(pool, span, b))
      [] obj.state = "ExpectValue" ->
            ObjectExpectValue(schema, span, FieldScan(schema, obj, pool, span, b))
      [] obj.state = "PreComma" ->
            ObjectPreComma(schema, obj, span, WsScan(pool, span, b))
      [] obj.state = "ExpectComma" ->
            ObjectExpectComma(schema, obj, pool, span, b)

\* while (Begin != End) { ... } return setFinished(nullptr);
ObjectLoop(schema, obj, pool, span, b) ==
    IF b = Len(span) THEN ObjectSuspend(obj, pool)
    ELSE ObjectState(schema, obj, pool, span, b)

\* ParseObject::Scan.
ObjectScan(schema, obj, pool, span, b) ==
    IF obj.state = "NotStarted"
    THEN IF At(span, b) # 123 THEN ObjectThrow(obj, pool, "InvalidObjectStart")
         ELSE ObjectLoop(schema, [obj EXCEPT !.state = "PreKey"], pool, span, b + 1)
    ELSE ObjectLoop(schema, obj, pool, span, b)

\* ObjectSwap copying the record out where it moves it: out.fields stays.
ObjectSwapCopy(schema, obj, alt) == [obj |-> obj, alt |-> obj.out]

\* ParseObject::Swap(Alt): std::swap(Alt, out.fields); out.fields = Type();
ObjectSwap(schema, obj, alt) ==
    [obj |-> [obj EXCEPT !.out = RecordInit(schema)], alt |-> obj.out]

\* ------------------------------------------------------------------------
\* The caller: a transport that hands one scanner a message in one span or
\* in two consecutive spans, each ended by the terminator, and extracts the
\* value once Scan has returned a position.

VARIABLES
    kind,    \* the scanner driven: "float", "string", "space", "array",
             \* "carray", "object"
    reused,  \* whether the instance has completed a message before this one
    schema,  \* the fields of the ParseObject instance (<< >> for the others)
    src,     \* how the message was composed (what its text is meant to say)
    msg,     \* the bytes of the message
    cut,     \* the offset where the first span ends (Len(msg): one span)
    fed,     \* the bytes handed to Scan so far
    calls,   \* the Scan calls made so far
    pc,      \* "scan", "swap", "done", "failed" (a throw), "starved";
             \* after a Swap made before Scan has returned a position:
             \* "refused" (Swap threw), "early" (Swap returned)
    pool,    \* the ParserPool
    arr,     \* the ParseArray<ParseFloat> instance
    carr,    \* the ParseContainerArray<ParseArray<ParseFloat>> instance
    obj,     \* the ParseObject instance
    ret,     \* what the last Scan returned, as an offset into msg, or Null
    err,     \* the exception the last call threw, or NoError
    alt,     \* the caller's value after Swap
    main     \* the locals of main() and what it has written (kind "main")

vars == <<kind, reused, schema, src, msg, cut, fed, calls, pc, pool, arr,
          carr, obj, ret, err, alt, main>>

\* main() before its loop: BlockQueue::BlockPtr buffer (no block yet, base
\* is the offset of its first byte in the input), end = nullptr,
\* input.Ended() false, nothing written to std::cout (out) or std::cerr
\* (what), and no exit status; seen counts the bytes of the input the
\* scanners have passed.
MainInit ==
    [buffer |-> << >>, base |-> 0, end |-> Null, ended |-> FALSE,
     seen |-> 0, out |-> << >>, what |-> "", status |-> Null]

\* The span the next Scan call receives: [fed, SpanEnd).
SpanEnd == IF fed < cut THEN cut ELSE Len(msg)
Span == SubSeq(msg, fed + 1, SpanEnd)

\* The caller's position after a Scan call with result r on the span.
PcAfter(r, last) ==
    IF r.err # NoError THEN "failed"
    ELSE IF r.ret # Null THEN last
    ELSE IF SpanEnd = Len(msg) THEN "starved"
    ELSE "scan"

RetAfter(r) == IF r.ret = Null THEN Null ELSE fed + r.ret

\* What every Scan call leaves with the caller: the pool, the position or
\* exception, the bytes handed over and the caller's next step (last once
\* Scan has returned a position).
Scanned(r, last) ==
    /\ pool' = r.pool
    /\ ret' = RetAfter(r)
    /\ err' = r.err
    /\ pc' = PcAfter(r, last)
    /\ fed' = SpanEnd
    /\ calls' = calls + 1

\* ------------------------------------------------------------------------
\* Messages

MaxIntDigits == 2
MaxElems == 2
MaxInner == 2
MaxOuter == 2
MaxMembers == 2
MaxFirst == 1

\* Concatenation of a tuple of byte sequences, with sep between them.
RECURSIVE Join(_, _)
Join(parts, sep) ==
    IF parts = << >> THEN << >>
    ELSE IF Len(parts) = 1 THEN parts[1]
    ELSE parts[1] \o sep \o Join(Tail(parts), sep)

\* The tuples over S of length at most n.
RECURSIVE TuplesUpTo(_, _)
TuplesUpTo(S, n) ==
    IF n = 0 THEN {<< >>}
    ELSE LET T == TuplesUpTo(S, n - 1)
         IN  T \cup {Append(t, x) : t \in {u \in T : Len(u) = n - 1}, x \in S}

\* Digit strings of at most n digits with the number each denotes.
RECURSIVE IntParts(_)
IntParts(n) ==
    LET one == {[txt |-> <<48 + d>>, v |-> d] : d \in {1, 2}}
    IN  IF n <= 1 THEN one
        ELSE one \cup {[txt |-> Append(x.txt, 48 + d), v |-> x.v * 10 + d] :
                          x \in IntParts(n - 1), d \in {0, 2}}

SignParts ==
    {[txt |-> << >>, v |-> 1], [txt |-> Bytes(<<"-">>), v |-> -1],
     [txt |-> Bytes(<<"+">>), v |-> 1]}

\* A fraction part: its text, its digits as a number, their count.
FracParts ==
    {[txt |-> << >>, v |-> 0, n |-> 0],
     [txt |-> Bytes(<<".", "5">>), v |-> 5, n |-> 1],
     [txt |-> Bytes(<<".", "0">>), v |-> 0, n |-> 1]}

ExpParts ==
    {[txt |-> << >>, v |-> 0],
     [txt |-> Bytes(<<"e", "2">>), v |-> 2],
     [txt |-> Bytes(<<"E", "-", "1">>), v |-> -1],
     [txt |-> Bytes(<<"e", "+", "1">>), v |-> 1]}

RECURSIVE Pow10(_)
Pow10(n) == IF n = 0 THEN 1 ELSE 10 * Pow10(n - 1)

\* The decimal literals: optional sign, digits, optional fraction, optional
\* exponent; each with its text and the value it denotes.
FloatLiterals ==
    {[txt |-> s.txt \o i.txt \o f.txt \o x.txt,
      val |-> Dec(s.v * (i.v * Pow10(f.n) + f.v), x.v - f.n)] :
        s \in SignParts, i \in IntParts(MaxIntDigits), f \in FracParts,
        x \in ExpParts}

\* The bytes that may follow a number in a message.
Separators == {32, 44, 93, 125}

\* ------------------------------------------------------------------------
\* ParseFloat driven by the caller

InitFloat ==
    /\ main = MainInit
    /\ kind = "float"
    /\ schema = << >>
    /\ \E lit \in FloatLiterals, sep \in Separators :
          /\ src = [lit |-> lit, sep |-> sep]
          /\ msg = Append(lit.txt, sep)
    /\ cut \in 1..Len(msg)
    /\ fed = 0
    /\ calls = 0
    /\ reused = FALSE
    /\ pc = "scan"
    /\ pool = PoolInit
    /\ arr = ArrayInit
    /\ carr = CArrayInit
    /\ obj = ObjectInit(<< >>)
    /\ ret = Null
    /\ err = NoError
    /\ alt = << >>

\* The caller hands ParseFloat::Scan the next span.
FloatScanSpan ==
    /\ kind = "float"
    /\ pc = "scan"
    /\ Scanned(FloatScan(pool, Span, 0), "done")
    /\ UNCHANGED <<main, kind, reused, schema, src, msg, cut, arr, carr, obj, alt>>

NextFloat == FloatScanSpan

SpecFloat == InitFloat /\ [][NextFloat]_vars

\* ------------------------------------------------------------------------
\* ParseArray and ParseContainerArray driven by the caller

\* The numbers the arrays of the model hold.
\* A number as a message writes it, with the value m * 10^e it denotes.
Lit(chars, m, e) == [txt |-> Bytes(chars), val |-> Dec(m, e)]

ElemLiterals ==
    {Lit(<<"1">>, 1, 0), Lit(<<"-", "2", ".", "5">>, -25, -1),
     Lit(<<"1", "e", "2">>, 1, 2), Lit(<<"2", "E", "-", "1">>, 2, -1)}

InnerLiterals == {Lit(<<"1">>, 1, 0), Lit(<<"2", "e", "+", "1">>, 2, 1)}

\* White space between the tokens of a message: none, or one space.
Gaps == {<< >>, <<32>>}

\* The bytes put where a separator belongs, none of them part of a number.
JunkBytes == {120, 58, 91, 125, 45}

Texts(items) == [i \in 1..Len(items) |-> items[i].txt]
Values(items) == [i \in 1..Len(items) |-> items[i].val]

\* "[" item ("," item)* "]" with gap around the tokens.
ArrayText(items, gap) ==
    <<91>> \o gap \o Join(Texts(items), gap \o <<44>> \o gap) \o gap \o <<93>>

\* The text of a message composed as src says:
\*   defect "none"     the array of src.items
\*   defect "trailing" a ',' after the last item, before the ']'
\*   defect "nosep"    no ',' between the first item and the second
\*   defect "junk"     the byte src.junk after the first item
DefectText(d) ==
    IF d.defect = "none" THEN ArrayText(d.items, d.gap)
    ELSE IF d.defect = "trailing"
    THEN <<91>> \o d.gap \o Join(Texts(d.items), d.gap \o <<44>> \o d.gap)
              \o d.gap \o <<44>> \o d.gap \o <<93>>
    ELSE IF d.defect = "nosep"
    THEN <<91>> \o d.items[1].txt \o d.gap
              \o Join(Texts(Tail(d.items)), d.gap \o <<44>> \o d.gap) \o <<93>>
    ELSE <<91>> \o d.items[1].txt \o d.gap \o <<d.junk>> \o <<93>>

\* The inner arrays of the nested arrays of the model, as items.
InnerItems ==
    {[txt |-> ArrayText(t, << >>), val |-> Values(t)] :
        t \in TuplesUpTo(InnerLiterals, MaxInner)}

ItemLists(k) ==
    IF k = "array" THEN TuplesUpTo(ElemLiterals, MaxElems)
    ELSE TuplesUpTo(InnerItems, MaxOuter)

ArraySources(k) ==
    {[items |-> t, gap |-> g, defect |-> "none", junk |-> 0] :
        t \in ItemLists(k), g \in Gaps}
    \cup
    {[items |-> t, gap |-> g, defect |-> "trailing", junk |-> 0] :
        t \in {u \in ItemLists(k) : Len(u) >= 1}, g \in Gaps}
    \cup
    {[items |-> t, gap |-> g, defect |-> "nosep", junk |-> 0] :
        t \in {u \in ItemLists(k) : Len(u) >= 2},
        g \in IF k = "array" THEN {<<32>>} ELSE Gaps}
    \cup
    {[items |-> t, gap |-> g, defect |-> "junk", junk |-> j] :
        t \in {u \in ItemLists(k) : Len(u) = 1}, g \in Gaps, j \in JunkBytes}

InitArray ==
    /\ main = MainInit
    /\ kind \in {"array", "carray"}
    /\ schema = << >>
    /\ src \in ArraySources(kind)
    /\ msg = DefectText(src)
    /\ cut \in 1..Len(msg)
    /\ fed = 0
    /\ calls = 0
    /\ reused = FALSE
    /\ pc = "scan"
    /\ pool = PoolInit
    /\ arr = ArrayInit
    /\ carr = CArrayInit
    /\ obj = ObjectInit(<< >>)
    /\ ret = Null
    /\ err = NoError
    /\ alt = << >>

\* Scan has given r to the caller of a ParseArray<ParseFloat>.
ArrayScanned(r) == arr' = r.arr /\ Scanned(r, "swap")

\* The caller hands ParseArray<ParseFloat>::Scan the next span.
ArrayScanSpan ==
    /\ kind = "array"
    /\ pc = "scan"
    /\ ArrayScanned(ArrayScan(arr, pool, Span, 0))
    /\ UNCHANGED <<main, kind, reused, schema, src, msg, cut, carr, obj, alt>>

\* The caller extracts the list: parser.Swap(out).
ArraySwapOut ==
    /\ kind = "array"
    /\ pc = "swap"
    /\ LET r == ArraySwap(arr, alt)
       IN  /\ arr' = r.arr
           /\ alt' = r.alt
           /\ err' = r.err
           /\ pc' = IF r.err = NoError THEN "done" ELSE "failed"
    /\ UNCHANGED <<main, kind, reused, schema, src, msg, cut, fed, calls, pool, carr, obj, ret>>

\* Scan has given r to the caller of a ParseContainerArray.
CArrayScanned(r) == carr' = r.arr /\ Scanned(r, "swap")

\* The caller hands ParseContainerArray<ParseArray<ParseFloat>>::Scan the
\* next span.
CArrayScanSpan ==
    /\ kind = "carray"
    /\ pc = "scan"
    /\ CArrayScanned(CArrayScan(carr, pool, Span, 0))
    /\ UNCHANGED <<main, kind, reused, schema, src, msg, cut, arr, obj, alt>>

CArraySwapOut ==
    /\ kind = "carray"
    /\ pc = "swap"
    /\ LET r == CArraySwap(carr, alt)
       IN  /\ carr' = r.arr
           /\ alt' = r.alt
           /\ err' = r.err
           /\ pc' = IF r.err = NoError THEN "done" ELSE "failed"
    /\ UNCHANGED <<main, kind, reused, schema, src, msg, cut, fed, calls, pool, arr, obj, ret>>

NextArray ==
    \/ ArrayScanSpan
    \/ ArraySwapOut
    \/ CArrayScanSpan
    \/ CArraySwapOut

SpecArray == InitArray /\ [][NextArray]_vars

\* ------------------------------------------------------------------------
\* The arrays driven by a caller that may call Swap before Scan has returned
\* a position: on the instance as constructed, or between two spans
\* (TEST_CASE("Float array failures"), "[1").

\* The caller has not been given a position, and no exception.
Waiting == pc \in {"scan", "starved"}

\* parser.Swap(out) ahead of completion: it throws, or it returns.
ArraySwapEarly ==
    /\ kind = "array"
    /\ Waiting
    /\ LET r == ArraySwap(arr, alt)
       IN  /\ arr' = r.arr
           /\ alt' = r.alt
           /\ err' = r.err
           /\ pc' = IF r.err = NoError THEN "early" ELSE "refused"
    /\ UNCHANGED <<main, kind, reused, schema, src, msg, cut, fed, calls, pool, carr,
                   obj, ret>>

CArraySwapEarly ==
    /\ kind = "carray"
    /\ Waiting
    /\ LET r == CArraySwap(carr, alt)
       IN  /\ carr' = r.arr
           /\ alt' = r.alt
           /\ err' = r.err
           /\ pc' = IF r.err = NoError THEN "early" ELSE "refused"
    /\ UNCHANGED <<main, kind, reused, schema, src, msg, cut, fed, calls, pool, arr,
                   obj, ret>>

NextArrayGuard ==
    \/ ArrayScanSpan
    \/ ArraySwapOut
    \/ ArraySwapEarly
    \/ CArrayScanSpan
    \/ CArraySwapOut
    \/ CArraySwapEarly

SpecArrayGuard == InitArray /\ [][NextArrayGuard]_vars

\* ------------------------------------------------------------------------
\* One ParseArray<ParseFloat> instance and one pool given two arrays, one
\* after the other (TEST_CASE("Float array"), "[ 1 ] again"): the first is
\* an array of at most MaxFirst numbers, the following one any message.

FirstArrays ==
    {s \in ArraySources("array") : s.defect = "none" /\ Len(s.items) <= MaxFirst}

InitArrayReuse ==
    /\ main = MainInit
    /\ kind = "array"
    /\ schema = << >>
    /\ src \in FirstArrays
    /\ msg = DefectText(src)
    /\ cut \in 1..Len(msg)
    /\ fed = 0
    /\ calls = 0
    /\ reused = FALSE
    /\ pc = "scan"
    /\ pool = PoolInit
    /\ arr = ArrayInit
    /\ carr = CArrayInit
    /\ obj = ObjectInit(<< >>)
    /\ ret = Null
    /\ err = NoError
    /\ alt = << >>

\* s = std::string(...): after the Swap the caller turns to the next array.
ArrayNextMessage ==
    /\ kind = "array"
    /\ pc = "done"
    /\ ~reused
    /\ reused' = TRUE
    /\ src' \in ArraySources("array")
    /\ msg' = DefectText(src')
    /\ cut' \in 1..Len(msg')
    /\ fed' = 0
    /\ calls' = 0
    /\ pc' = "scan"
    /\ ret' = Null
    /\ err' = NoError
    /\ UNCHANGED <<main, kind, schema, pool, arr, carr, obj, alt>>

NextArrayReuse ==
    \/ ArrayScanSpan
    \/ ArraySwapOut
    \/ ArrayNextMessage

SpecArrayReuse == InitArrayReuse /\ [][NextArrayReuse]_vars

\* ------------------------------------------------------------------------
\* ParseObject driven by the caller

Field(key, required, k) == [key |-> key, required |-> required, kind |-> k]

\* The template instantiations of the model.  The first is the tests'
\* ParseObject<KeyValues<RequiredKeyValue<name, ParseFloat>,
\* KeyValue<name2, ParseFloat>>, ...>, with shorter keys.
Schemas ==
    { << Field(Bytes(<<"n">>), TRUE, "float"),
         Field(Bytes(<<"n", "2">>), FALSE, "float") >>,
      << Field(Bytes(<<"n">>), FALSE, "float"),
         Field(Bytes(<<"s">>), FALSE, "string"),
         Field(Bytes(<<"c">>), FALSE, "array") >>,
      << Field(Bytes(<<"c">>), TRUE, "array"),
         Field(Bytes(<<"s">>), TRUE, "string") >> }

\* The values a member of a message may have, by the kind of its field.
MemberValues(k) ==
    IF k = "float"
    THEN {Lit(<<"1">>, 1, 0), Lit(<<"1", "e", "2">>, 1, 2)}
    ELSE IF k = "string"
    THEN {[txt |-> Bytes(<<"\"", "x", "\"">>), val |-> Bytes(<<"x">>)],
          [txt |-> Bytes(<<"\"", "y", "\\", "n", "\"">>), val |-> <<121, 10>>]}
    ELSE {[txt |-> ArrayText(t, << >>), val |-> Values(t)] :
             t \in TuplesUpTo(InnerLiterals, 1)}

Quoted(t) == <<34>> \o t \o <<34>>

\* The value a member was written from, kept apart by kind.
Wrap(k, v) ==
    [f |-> IF k = "float" THEN v ELSE FloatZero,
     s |-> IF k = "string" THEN v ELSE << >>,
     a |-> IF k = "array" THEN v ELSE << >>]

Unwrap(k, w) == IF k = "float" THEN w.f ELSE IF k = "string" THEN w.s ELSE w.a

\* The members a message for the schema sc is composed of: a member of a
\* field of the schema, or a member whose key is no key of the schema: "z",
\* and the first field's key followed by \u0000 and z.
Members(sc) ==
    UNION {{[key |-> sc[k].key, ktxt |-> Quoted(sc[k].key),
              vtxt |-> v.txt, val |-> Wrap(sc[k].kind, v.val)] :
                 v \in MemberValues(sc[k].kind)} :
           k \in 1..Len(sc)}
    \cup
    {[key |-> Bytes(<<"z">>), ktxt |-> Quoted(Bytes(<<"z">>)),
      vtxt |-> Bytes(<<"1">>), val |-> Wrap("float", Dec(1, 0))],
     [key |-> sc[1].key \o <<0, 122>>,
      ktxt |-> Quoted(sc[1].key \o Bytes(<<"\\", "u", "0", "0", "0", "0", "z">>)),
      vtxt |-> Bytes(<<"1">>), val |-> Wrap("float", Dec(1, 0))]}

MemberText(m, gap) == m.ktxt \o gap \o <<58>> \o gap \o m.vtxt

\* "{" member ("," member)* "}" with gap around the tokens.
ObjectText(members, gap) ==
    <<123>> \o gap
        \o Join([i \in 1..Len(members) |-> MemberText(members[i], gap)],
                gap \o <<44>> \o gap)
        \o gap \o <<125>>

InitObject ==
    /\ main = MainInit
    /\ kind = "object"
    /\ schema \in Schemas
    /\ \E t \in TuplesUpTo(Members(schema), MaxMembers), g \in Gaps :
          /\ src = [members |-> t, gap |-> g]
          /\ msg = ObjectText(t, g)
    /\ cut \in 1..Len(msg)
    /\ fed = 0
    /\ calls = 0
    /\ reused = FALSE
    /\ pc = "scan"
    /\ pool = PoolInit
    /\ arr = ArrayInit
    /\ carr = CArrayInit
    /\ obj = ObjectInit(schema)
    /\ ret = Null
    /\ err = NoError
    /\ alt = RecordInit(schema)

\* Scan has given r to the caller of a ParseObject.
ObjectScanned(r) == obj' = r.obj /\ Scanned(r, "swap")

\* The caller hands ParseObject::Scan the next span.
ObjectScanSpan ==
    /\ kind = "object"
    /\ pc = "scan"
    /\ ObjectScanned(ObjectScan(schema, obj, pool, Span, 0))
    /\ UNCHANGED <<main, kind, reused, schema, src, msg, cut, arr, carr, alt>>

\* The caller extracts the record: parser.Swap(val.values).
ObjectSwapOut ==
    /\ kind = "object"
    /\ pc = "swap"
    /\ LET r == ObjectSwap(schema, obj, alt)
       IN  /\ obj' = r.obj
           /\ alt' = r.alt
    /\ pc' = "done"
    /\ UNCHANGED <<main, kind, reused, schema, src, msg, cut, fed, calls, pool, arr, carr,
                   ret, err>>

NextObject ==
    \/ ObjectScanSpan
    \/ ObjectSwapOut

SpecObject == InitObject /\ [][NextObject]_vars

\* ------------------------------------------------------------------------
\* ParseObject driven by a caller that may call Swap before Scan has
\* returned a position.

\* parser.Swap(out) ahead of completion: ParseObject::Swap has no throw.
ObjectSwapEarly ==
    /\ kind = "object"
    /\ Waiting
    /\ LET r == ObjectSwap(schema, obj, alt)
       IN  /\ obj' = r.obj
           /\ alt' = r.alt
    /\ pc' = "early"
    /\ UNCHANGED <<main, kind, reused, schema, src, msg, cut, fed, calls, pool, arr,
                   carr, ret, err>>

NextObjectGuard ==
    \/ ObjectScanSpan
    \/ ObjectSwapOut
    \/ ObjectSwapEarly

SpecObjectGuard == InitObject /\ [][NextObjectGuard]_vars

\* ------------------------------------------------------------------------
\* One ParseObject instance and one pool given two messages, one after the
\* other (TEST_CASE("Object"), "... and again"): the first in one span,
\* the following one without white space and cut anywhere.

InitObjectReuse ==
    /\ main = MainInit
    /\ kind = "object"
    /\ schema \in Schemas
    /\ \E t \in TuplesUpTo(Members(schema), MaxMembers), g \in Gaps :
          /\ src = [members |-> t, gap |-> g]
          /\ msg = ObjectText(t, g)
    /\ cut = Len(msg)
    /\ fed = 0
    /\ calls = 0
    /\ reused = FALSE
    /\ pc = "scan"
    /\ pool = PoolInit
    /\ arr = ArrayInit
    /\ carr = CArrayInit
    /\ obj = ObjectInit(schema)
    /\ ret = Null
    /\ err = NoError
    /\ alt = RecordInit(schema)

\* s = std::string(...): after the Swap the caller turns to the next message.
ObjectNextMessage ==
    /\ kind = "object"
    /\ pc = "done"
    /\ ~reused
    /\ reused' = TRUE
    /\ \E t \in TuplesUpTo(Members(schema), MaxMembers) :
          /\ src' = [members |-> t, gap |-> << >>]
          /\ msg' = ObjectText(t, << >>)
    /\ cut' \in 1..Len(msg')
    /\ fed' = 0
    /\ calls' = 0
    /\ pc' = "scan"
    /\ ret' = Null
    /\ err' = NoError
    /\ UNCHANGED <<main, kind, schema, pool, arr, carr, obj, alt>>

NextObjectReuse ==
    \/ ObjectScanSpan
    \/ ObjectSwapOut
    \/ ObjectNextMessage

SpecObjectReuse == InitObjectReuse /\ [][NextObjectReuse]_vars

\* The caller turns to the next message without parser.Swap(out): the record
\* of the instance still holds what the first message has given.
ObjectNextUnswapped ==
    /\ kind = "object"
    /\ pc = "swap"
    /\ ~reused
    /\ reused' = TRUE
    /\ \E t \in TuplesUpTo(Members(schema), MaxMembers) :
          /\ src' = [members |-> t, gap |-> << >>, unswapped |-> TRUE]
          /\ msg' = ObjectText(t, << >>)
    /\ cut' \in 1..Len(msg')
    /\ fed' = 0
    /\ calls' = 0
    /\ pc' = "scan"
    /\ ret' = Null
    /\ err' = NoError
    /\ UNCHANGED <<main, kind, schema, pool, arr, carr, obj, alt>>

NextObjectStream ==
    \/ ObjectScanSpan
    \/ ObjectSwapOut
    \/ ObjectNextMessage
    \/ ObjectNextUnswapped

SpecObjectStream == InitObjectReuse /\ [][NextObjectStream]_vars

\* ------------------------------------------------------------------------
\* ParseString driven by the caller

MaxPieces == 2

\* The pieces of a string body with the bytes each stands for: a plain
\* character, a byte above 0x7F, the eight one-letter escapes and a \u
\* escape.
StringPieces ==
    {[txt |-> <<c>>, val |-> <<c>>] : c \in {120, 195}}
    \cup {[txt |-> <<92, e[1]>>, val |-> <<e[2]>>] :
            e \in {<<34, 34>>, <<47, 47>>, <<92, 92>>, <<98, 8>>, <<102, 12>>,
                   <<110, 10>>, <<114, 13>>, <<116, 9>>}}
    \cup {[txt |-> <<92, 117, 48, 48, 101, 57>>, val |-> <<195, 169>>]}

\* The values of the \u escapes: those of the tests and every value whose
\* four digits are among 0, 7, 8, c and f.
UnicodeValues ==
    LET N == {0, 7, 8, 12, 15}
    IN  {121, 128, 2047, 2048, 65535}
        \cup {((a * 16 + b) * 16 + c) * 16 + d :
                a \in N, b \in N, c \in N, d \in N}

\* The four hexadecimal digits of value, in upper or lower case.
HexText(value, upper) ==
    LET HexChar(n) ==
            IF n < 10 THEN 48 + n ELSE IF upper THEN 55 + n ELSE 87 + n
    IN  <<HexChar(value \div 4096), HexChar((value \div 256) % 16),
          HexChar((value \div 16) % 16), HexChar(value % 16)>>

\* The string tokens: valid literals built of pieces, a single \u escape, a
\* backslash followed by any byte, a \u escape with one byte that is no
\* hexadecimal digit, a token that does not start with '"' and a body with
\* a control character. In the message nothing or a ',' follows the token.
StringSources ==
    {[fam |-> "plain", txt |-> <<34>> \o Join(Texts(t), << >>) \o <<34>>,
      val |-> Join(Values(t), << >>)] : t \in TuplesUpTo(StringPieces, MaxPieces)}
    \cup {[fam |-> "unicode", value |-> v, upper |-> u,
           txt |-> <<34, 92, 117>> \o HexText(v, u) \o <<34>>] :
            v \in UnicodeValues, u \in BOOLEAN}
    \cup {[fam |-> "escape", byte |-> c, txt |-> <<34, 92, c, 34>>] :
            c \in 0..255}
    \cup {[fam |-> "hexdigit", byte |-> c, at |-> k,
           txt |-> <<34, 92, 117>> \o [<<49, 97, 70, 48>> EXCEPT ![k] = c]
                   \o <<34>>] :
            c \in {x \in 0..255 : ~IsHexDigit(x)}, k \in 1..4}
    \cup {[fam |-> "nostart", byte |-> c, txt |-> <<c, 120, 34>>] :
            c \in (0..255) \ {34}}
    \cup {[fam |-> "control", byte |-> c, at |-> k,
           txt |-> <<34>> \o SubSeq(<<120, 92, 110>>, 1, k) \o <<c, 34>>] :
            c \in 0..31, k \in {0, 1, 3}}

InitString ==
    /\ main = MainInit
    /\ kind = "string"
    /\ schema = << >>
    /\ src \in StringSources
    /\ \E tail \in {<< >>, <<44>>} : msg = src.txt \o tail
    /\ cut \in 1..Len(msg)
    /\ fed = 0
    /\ calls = 0
    /\ reused = FALSE
    /\ pc = "scan"
    /\ pool = PoolInit
    /\ arr = ArrayInit
    /\ carr = CArrayInit
    /\ obj = ObjectInit(<< >>)
    /\ ret = Null
    /\ err = NoError
    /\ alt = << >>

\* The caller hands ParseString::Scan the next span.
StringScanSpan ==
    /\ kind = "string"
    /\ pc = "scan"
    /\ Scanned(StringScan(pool, Span, 0), "done")
    /\ UNCHANGED <<main, kind, reused, schema, src, msg, cut, arr, carr, obj, alt>>

NextString == StringScanSpan

SpecString == InitString /\ [][NextString]_vars

\* ------------------------------------------------------------------------
\* SkipWhitespace driven by the caller

MaxSpaces == 2

\* The messages: spaces, tabs, line feeds and carriage returns, then
\* nothing, or any byte alone or followed by a space and a letter.
SpaceSources ==
    {[ws |-> w, rest |-> r] :
        w \in TuplesUpTo({32, 9, 10, 13}, MaxSpaces),
        r \in {<< >>} \cup {<<c>> \o tl : c \in 0..255,
                                          tl \in {<< >>, <<32, 122>>}}}

InitSpace ==
    /\ main = MainInit
    /\ kind = "space"
    /\ schema = << >>
    /\ src \in SpaceSources
    /\ msg = src.ws \o src.rest
    /\ cut \in IF msg = << >> THEN {0} ELSE 1..Len(msg)
    /\ fed = 0
    /\ calls = 0
    /\ reused = FALSE
    /\ pc = "scan"
    /\ pool = PoolInit
    /\ arr = ArrayInit
    /\ carr = CArrayInit
    /\ obj = ObjectInit(<< >>)
    /\ ret = Null
    /\ err = NoError
    /\ alt = << >>

\* The caller hands SkipWhitespace::Scan the next span.
SpaceScanSpan ==
    /\ kind = "space"
    /\ pc = "scan"
    /\ Scanned(WsScan(pool, Span, 0), "done")
    /\ UNCHANGED <<main, kind, reused, schema, src, msg, cut, arr, carr, obj, alt>>

NextSpace == SpaceScanSpan

SpecSpace == InitSpace /\ [][NextSpace]_vars

\* ------------------------------------------------------------------------
\* ParseFloat on other spellings, and the scanners together

MaxRun == 4

\* Tokens that are no decimal literals or may be none: hexadecimal floats,
\* infinities and NaNs as strtof reads them, the runs of number characters
\* of the tests and every run of up to MaxRun of the characters 1 . e -,
\* each followed by a space or a ','.
InitFloatSpelling ==
    /\ main = MainInit
    /\ kind = "float"
    /\ schema = << >>
    /\ LET Word(fam, chars) == [fam |-> fam, txt |-> Bytes(chars)]
           Spellings ==
               {Word("hex", <<"0", "x", "1", "p", "3">>),
                Word("hex", <<"0", "X", "1", "P", "3">>),
                Word("hex", <<"-", "0", "x", "1", "p", "3">>),
                Word("hex", <<"0", "x", "1">>),
                Word("hex", <<"0", "x", "A">>),
                Word("hex", <<"0", "x", ".", "8">>),
                Word("hex", <<"0", "x", "1", ".", "8", "p", "-", "1">>),
                Word("inf", <<"i", "n", "f">>),
                Word("inf", <<"I", "N", "F">>),
                Word("inf", <<"-", "i", "n", "f">>),
                Word("inf", <<"+", "i", "n", "f">>),
                Word("inf", <<"i", "n", "f", "i", "n", "i", "t", "y">>),
                Word("nan", <<"n", "a", "n">>),
                Word("nan", <<"N", "a", "N">>),
                Word("nan", <<"-", "n", "a", "n">>),
                Word("nan", <<"n", "a", "n", "(", "1", ")">>),
                Word("run", <<"1", ".", "9", "e", "e", "-", "2">>),
                Word("run", <<"1", ".", "9", "e", "-", "2">>),
                Word("run", <<"1", "e", "3", "e">>),
                Word("run", <<"1", "2", ".", "9", "e", "1">>)}
               \cup {[fam |-> "run", txt |-> r] :
                        r \in TuplesUpTo({49, 46, 101, 45}, MaxRun) \ {<< >>}}
       IN  \E lit \in Spellings, sep \in {32, 44} :
              /\ src = [lit |-> lit, sep |-> sep]
              /\ msg = Append(lit.txt, sep)
    /\ cut \in 1..Len(msg)
    /\ fed = 0
    /\ calls = 0
    /\ reused = FALSE
    /\ pc = "scan"
    /\ pool = PoolInit
    /\ arr = ArrayInit
    /\ carr = CArrayInit
    /\ obj = ObjectInit(<< >>)
    /\ ret = Null
    /\ err = NoError
    /\ alt = << >>

\* Objects with a fault of syntax, composed of members of the schema:
\*   defect "trailing"  a ',' after the last member, before the '}'
\*   defect "value"     the byte src.junk after the first member's value,
\*                      where ',' or '}' belongs
\*   defect "colon"     the byte src.junk after the first key, where ':'
\*                      belongs
InitObjectDefect ==
    /\ main = MainInit
    /\ kind = "object"
    /\ schema \in Schemas
    /\ LET Known == {m \in Members(schema) :
                        \E k \in 1..Len(schema) : schema[k].key = m.key}
           Faults ==
               {[defect |-> "trailing", junk |-> 44]}
               \cup {[defect |-> "value", junk |-> j] :
                        j \in {120, 34, 93, 123, 59, 58}}
               \cup {[defect |-> "colon", junk |-> j] :
                        j \in {120, 34, 93, 123, 59, 44, 125}}
           Rest(t, g) == Join([i \in 1..Len(t) |-> MemberText(t[i], g)],
                              g \o <<44>> \o g)
       IN  \E t \in TuplesUpTo(Known, MaxMembers) \ {<< >>}, g \in Gaps,
              d \in Faults :
              /\ src = [members |-> t, gap |-> g, defect |-> d.defect,
                        junk |-> d.junk]
              /\ msg = IF d.defect = "trailing"
                       THEN <<123>> \o g \o Rest(t, g) \o g \o <<44>> \o g
                                \o <<125>>
                       ELSE IF d.defect = "value"
                       THEN <<123>> \o g \o MemberText(t[1], g) \o g
                                \o <<d.junk>> \o g \o Rest(Tail(t), g) \o g
                                \o <<125>>
                       ELSE <<123>> \o g \o t[1].ktxt \o g \o <<d.junk>> \o g
                                \o t[1].vtxt \o g \o <<125>>
    /\ cut \in 1..Len(msg)
    /\ fed = 0
    /\ calls = 0
    /\ reused = FALSE
    /\ pc = "scan"
    /\ pool = PoolInit
    /\ arr = ArrayInit
    /\ carr = CArrayInit
    /\ obj = ObjectInit(schema)
    /\ ret = Null
    /\ err = NoError
    /\ alt = RecordInit(schema)

\* Each of the scanners as its caller drives it, on the messages above.
InitScanners ==
    \/ InitFloat
    \/ InitFloatSpelling
    \/ InitString
    \/ InitSpace
    \/ InitArray
    \/ InitObject
    \/ InitObjectDefect

NextScanners ==
    \/ FloatScanSpan
    \/ StringScanSpan
    \/ SpaceScanSpan
    \/ ArrayScanSpan
    \/ ArraySwapOut
    \/ CArrayScanSpan
    \/ CArraySwapOut
    \/ ObjectScanSpan
    \/ ObjectSwapOut

SpecScanners == InitScanners /\ [][NextScanners]_vars

\* ------------------------------------------------------------------------
\* The scanners handed an empty span: Scan(Begin, End, pp) with Begin == End,
\* where only the terminator stands.

MaxEmpty == 2

\* Scan has given r to a caller whose span held no byte.
EmptyScanned(r) ==
    /\ pool' = r.pool
    /\ ret' = IF r.ret = Null THEN Null ELSE fed + r.ret
    /\ err' = r.err
    /\ pc' = IF r.err # NoError THEN "failed" ELSE "scan"
    /\ calls' = calls + 1

ScanEmptySpan ==
    /\ pc = "scan"
    /\ calls <= MaxEmpty
    /\ \/ /\ kind = "string"
          /\ EmptyScanned(StringScan(pool, << >>, 0))
          /\ UNCHANGED <<arr, carr, obj>>
       \/ /\ kind = "array"
          /\ arr' = ArrayScan(arr, pool, << >>, 0).arr
          /\ EmptyScanned(ArrayScan(arr, pool, << >>, 0))
          /\ UNCHANGED <<carr, obj>>
       \/ /\ kind = "carray"
          /\ carr' = CArrayScan(carr, pool, << >>, 0).arr
          /\ EmptyScanned(CArrayScan(carr, pool, << >>, 0))
          /\ UNCHANGED <<arr, obj>>
       \/ /\ kind = "object"
          /\ obj' = ObjectScan(schema, obj, pool, << >>, 0).obj
          /\ EmptyScanned(ObjectScan(schema, obj, pool, << >>, 0))
          /\ UNCHANGED <<arr, carr>>
    /\ UNCHANGED <<main, kind, reused, schema, src, msg, cut, fed, alt>>

NextEmptySpan ==
    \/ StringScanSpan
    \/ ArrayScanSpan
    \/ ArraySwapOut
    \/ CArrayScanSpan
    \/ CArraySwapOut
    \/ ObjectScanSpan
    \/ ObjectSwapOut
    \/ ScanEmptySpan

SpecEmptySpan ==
    (InitString \/ InitArray \/ InitObject) /\ [][NextEmptySpan]_vars

\* ------------------------------------------------------------------------
\* main(): the read loop of the program.  It reads the input block by block
\* into a buffer it ends with a zero byte, hands each block to the top-level
\* parser, and after each message the parser completes it reads the image
\* and reports.

\* const size_t block_size = 4096, with a size the model can cover.
block_size == 3

MaxMessages == 2

\* ReadImageIn: the parser of readimage_io.hpp, as main uses its values.
ReadImageIn ==
    << Field(Bytes(<<"f", "i", "l", "e", "n", "a", "m", "e">>), TRUE, "string"),
       Field(Bytes(<<"f", "o", "r", "m", "a", "t">>), FALSE, "string"),
       Field(Bytes(<<"m", "i", "n", "i", "m", "u", "m">>), FALSE, "float"),
       Field(Bytes(<<"m", "a", "x", "i", "m", "u", "m">>), FALSE, "float") >>

\* The messages of the input, each with what main is to do with it: "read"
\* (a reader is called), "noformat", "range", "unsupported" (reported
\* without a reader), "throw" (the parser raises).
Messages ==
    { [txt |-> Bytes(<<
            "{", "\"", "f", "i", "l", "e", "n", "a", "m", "e", "\"", ":",
            "\"", "a", ".", "p", "p", "m", "\"", "}">>),
       want |-> "read"],
      [txt |-> Bytes(<<
            "{", "\"", "f", "o", "r", "m", "a", "t", "\"", ":", "\"", "P",
            "N", "G", "\"", ",", "\"", "f", "i", "l", "e", "n", "a", "m",
            "e", "\"", ":", "\"", "a", "\"", "}">>),
       want |-> "read"],
      [txt |-> Bytes(<<
            "{", "\"", "f", "i", "l", "e", "n", "a", "m", "e", "\"", ":",
            "\"", "a", "\"", "}">>),
       want |-> "noformat"],
      [txt |-> Bytes(<<
            "{", "\"", "f", "i", "l", "e", "n", "a", "m", "e", "\"", ":",
            "\"", "a", ".", "x", "\"", "}">>),
       want |-> "unsupported"],
      [txt |-> Bytes(<<
            "{", "\"", "f", "i", "l", "e", "n", "a", "m", "e", "\"", ":",
            "\"", "a", ".", "p", "p", "m", "\"", ",", "\"", "m", "i", "n",
            "i", "m", "u", "m", "\"", ":", "2", ",", "\"", "m", "a", "x",
            "i", "m", "u", "m", "\"", ":", "1", "}">>),
       want |-> "range"],
      [txt |-> Bytes(<<
            "{", "\"", "f", "i", "l", "e", "n", "a", "m", "e", "\"", ":",
            "\"", "a", ".", "p", "p", "m", "\"", ",", "\"", "m", "i", "n",
            "i", "m", "u", "m", "\"", ":", "1", ",", "\"", "m", "a", "x",
            "i", "m", "u", "m", "\"", ":", "2", "}">>),
       want |-> "read"],
      [txt |-> Bytes(<<
            "{", "\"", "f", "i", "l", "e", "n", "a", "m", "e", "\"", ":",
            "1", "}">>),
       want |-> "throw"] }

\* The input: messages one after the other, with or without a line feed
\* after each.
Streams ==
    {[msgs |-> t, sep |-> s] :
        t \in TuplesUpTo(Messages, MaxMessages) \ {<< >>},
        s \in {<< >>, <<10>>}}

StreamText(s) ==
    Join([i \in 1..Len(s.msgs) |-> s.msgs[i].txt \o s.sep], << >>)

InitMain ==
    /\ kind = "main"
    /\ schema = ReadImageIn
    /\ src \in Streams
    /\ msg = StreamText(src)
    /\ cut = Len(msg)
    /\ fed = 0
    /\ calls = 0
    /\ reused = FALSE
    /\ pc = "read"
    /\ pool = PoolInit
    /\ arr = ArrayInit
    /\ carr = CArrayInit
    /\ obj = ObjectInit(ReadImageIn)
    /\ ret = Null
    /\ err = NoError
    /\ alt = RecordInit(ReadImageIn)
    /\ main = MainInit

\* [end, &buffer->back()): the bytes of the block from end on.
MainSpan == SubSeq(main.buffer, 1, Len(main.buffer) - 1)

\* MainRead writing the zero byte into a block of count bytes: the last byte
\* read is lost under it.
MainReadShortBlock ==
    /\ kind = "main"
    /\ pc = "read"
    /\ IF fed = Len(msg)
       THEN /\ main' = [main EXCEPT !.ended = TRUE, !.status = 0]
            /\ pc' = "exit"
            /\ fed' = fed
       ELSE \E count \in 1..block_size :
               /\ fed + count <= Len(msg)
               /\ main' = [main EXCEPT
                              !.buffer = SubSeq(msg, fed + 1, fed + count - 1)
                                             \o <<0>>,
                              !.base = fed, !.end = 0]
               /\ fed' = fed + count
               /\ pc' = "skip"
    /\ UNCHANGED <<kind, reused, schema, src, msg, cut, calls, pool, arr,
                   carr, obj, ret, err, alt>>

\* The top of the loop with end == nullptr: input.Read into the buffer,
\* buffer->resize(count + 1), buffer->back() = 0, end = &buffer->front().
\* At the end of the input Read stores nothing, input.Ended() holds from
\* then on and main returns 0.
MainRead ==
    /\ kind = "main"
    /\ pc = "read"
    /\ IF fed = Len(msg)
       THEN /\ main' = [main EXCEPT !.ended = TRUE, !.status = 0]
            /\ pc' = "exit"
            /\ fed' = fed
       ELSE \E count \in 1..block_size :
               /\ fed + count <= Len(msg)
               /\ main' = [main EXCEPT
                              !.buffer = SubSeq(msg, fed + 1, fed + count)
                                             \o <<0>>,
                              !.base = fed, !.end = 0]
               /\ fed' = fed + count
               /\ pc' = "skip"
    /\ UNCHANGED <<kind, reused, schema, src, msg, cut, calls, pool, arr,
                   carr, obj, ret, err, alt>>

\* pp.skipWhitespace(end, &buffer->back()) has given r: on nullptr the loop
\* goes round to read, else the parser is called at the position.
MainSkipped(r) ==
    /\ pool' = r.pool
    /\ main' = [main EXCEPT
                   !.end = r.ret,
                   !.seen = IF r.ret = Null THEN fed ELSE main.base + r.ret]
    /\ pc' = IF r.ret = Null THEN "read" ELSE "scan"

\* if (parser.Finished()) { end = pp.skipWhitespace(...); if (end ==
\* nullptr) continue; }
MainSkip ==
    /\ kind = "main"
    /\ pc = "skip"
    /\ IF obj.finished
       THEN MainSkipped(WsScan(pool, MainSpan, main.end))
       ELSE pc' = "scan" /\ UNCHANGED <<pool, main>>
    /\ UNCHANGED <<kind, reused, schema, src, msg, cut, fed, calls, arr,
                   carr, obj, ret, err, alt>>

\* MainScanned with a catch that writes the diagnostic and goes on to read
\* the next block.
MainScannedGoesOn(r) ==
    /\ obj' = r.obj
    /\ pool' = r.pool
    /\ err' = r.err
    /\ ret' = IF r.ret = Null THEN Null ELSE main.base + r.ret
    /\ IF r.err # NoError
       THEN /\ main' = [main EXCEPT !.what = What(r.err), !.end = Null]
            /\ pc' = "read"
       ELSE IF ~r.obj.finished
       THEN /\ main' = [main EXCEPT !.end = Null, !.seen = fed]
            /\ pc' = "read"
       ELSE /\ main' = [main EXCEPT !.end = r.ret, !.seen = main.base + r.ret]
            /\ pc' = "process"

\* parser.Scan(end, &buffer->back(), pp) has given r: the catch writes
\* e.what() to std::cerr and returns 1; if (!parser.Finished()) { end =
\* nullptr; continue; }; else the message is processed.
MainScanned(r) ==
    /\ obj' = r.obj
    /\ pool' = r.pool
    /\ err' = r.err
    /\ ret' = IF r.ret = Null THEN Null ELSE main.base + r.ret
    /\ IF r.err # NoError
       THEN /\ main' = [main EXCEPT !.what = What(r.err), !.status = 1]
            /\ pc' = "exit"
       ELSE IF ~r.obj.finished
       THEN /\ main' = [main EXCEPT !.end = Null, !.seen = fed]
            /\ pc' = "read"
       ELSE /\ main' = [main EXCEPT !.end = r.ret, !.seen = main.base + r.ret]
            /\ pc' = "process"

MainScan ==
    /\ kind = "main"
    /\ pc = "scan"
    /\ MainScanned(ObjectScan(schema, obj, pool, MainSpan, main.end))
    /\ UNCHANGED <<kind, reused, schema, src, msg, cut, fed, calls, arr, carr,
                   alt>>

\* strcasecmp(val.format().c_str(), name) == 0 for one of the names of the
\* readers.
HasReader(format) ==
    [i \in 1..Len(format) |-> Lower(format[i])] \in
        {Bytes(<<"p", "p", "m">>), Bytes(<<"p", "6", "-", "p", "p", "m">>),
         Bytes(<<"p", "3", "-", "p", "p", "m">>),
         Bytes(<<"t", "i", "f", "f">>), Bytes(<<"t", "i", "f">>),
         Bytes(<<"p", "n", "g">>)}

\* What main writes to std::cout for the values val, given the format it
\* has settled on: the error of a reader that fails, or the image.
Reported(val, format) ==
    IF /\ val[3].given /\ val[4].given
       /\ val[4].value.m * Pow10(val[4].value.e)
              <= val[3].value.m * Pow10(val[3].value.e)
    THEN {[error |-> "maximum <= minimum", format |-> << >>]}
    ELSE IF ~HasReader(format)
    THEN {[error |-> "Unsupported format: ", format |-> format]}
    ELSE {[error |-> "reader", format |-> << >>],
          [error |-> "", format |-> << >>]}

\* The report of one message: the format is val.format() if given, else
\* what follows the last '.' of the file name.
Reports(val) ==
    IF val[2].given THEN Reported(val, val[2].value)
    ELSE IF \A i \in 1..Len(val[1].value) : val[1].value[i] # 46
    THEN {[error |-> "No format nor extension in filename.", format |-> << >>]}
    ELSE Reported(val,
             SubSeq(val[1].value,
                    1 + CHOOSE i \in 1..Len(val[1].value) :
                            /\ val[1].value[i] = 46
                            /\ \A j \in (i + 1)..Len(val[1].value) :
                                  val[1].value[j] # 46,
                    Len(val[1].value)))

\* parser.Swap(val.values), the checks, the reader and report(out); every
\* path ends the iteration, with end where the parser has stopped.
MainProcess ==
    /\ kind = "main"
    /\ pc = "process"
    /\ obj' = ObjectSwap(schema, obj, alt).obj
    /\ alt' = ObjectSwap(schema, obj, alt).alt
    /\ \E report \in Reports(ObjectSwap(schema, obj, alt).alt) :
          main' = [main EXCEPT !.out = Append(@, report)]
    /\ pc' = "skip"
    /\ UNCHANGED <<kind, reused, schema, src, msg, cut, fed, calls, pool,
                   arr, carr, ret, err>>

NextMain ==
    \/ MainRead
    \/ MainSkip
    \/ MainScan
    \/ MainProcess

SpecMain == InitMain /\ [][NextMain]_vars

\* ------------------------------------------------------------------------
\* Claims about ParseFloat

\* The message scanned as a single span by a fresh pool.
WholeFloat(m) == FloatScan(PoolInit, m, 0)

\* The first span ends inside the literal.
InteriorFloatCut == kind = "float" /\ cut < Len(src.lit.txt)

\* C2: for every decimal literal followed by a separator byte and every
\* interior split position, Scan on the first part returns the suspension
\* sentinel without error and Scan on the second part returns the position
\* of the separator with the value a single-span scan decodes.
C2_FloatSplitResumption ==
    InteriorFloatCut =>
        /\ pc # "failed"
        /\ calls = 1 => ret = Null
        /\ calls = 2 =>
              /\ ret = Len(src.lit.txt)
              /\ pool.fValue = WholeFloat(msg).pool.fValue

\* ------------------------------------------------------------------------
\* Claims about the arrays

\* The list a fresh ParseArray extracts from the message scanned as a single
\* span (<< >> with the exception where the scan or the Swap throws).
Extracted(r, w) ==
    [ret |-> r.ret, err |-> IF r.err # NoError THEN r.err ELSE w.err,
     alt |-> IF r.err # NoError THEN << >> ELSE w.alt]

ArrayExtracted(r) == Extracted(r, ArraySwap(r.arr, << >>))

WholeArray(m) == ArrayExtracted(ArrayScan(ArrayInit, PoolInit, m, 0))

\* C3: for every valid array of floats and every split position, Scan on
\* the two parts in sequence followed by Swap yields the element list a
\* single-span scan of the whole literal yields.
C3_ArraySplitResumption ==
    (kind = "array" /\ src.defect = "none") =>
        /\ pc \notin {"failed", "starved"}
        /\ pc = "done" =>
              /\ WholeArray(msg).err = NoError
              /\ alt = WholeArray(msg).alt

\* ------------------------------------------------------------------------
\* Claims about the structure of arrays

IsArrayKind == kind \in {"array", "carray"}

\* The error the element scanner raises at a ']': ParseFloat's for
\* ParseArray<ParseFloat>, the inner ParseArray's for the nested array.
ElementError == IF kind = "array" THEN "InvalidFloat" ELSE "InvalidArrayStart"

\* The elements the scanner driven has appended.
Appended == IF kind = "array" THEN arr.out ELSE carr.out

C10_SeparatorRequired ==
    (IsArrayKind /\ src.defect \in {"nosep", "junk"}) =>
        /\ pc \notin {"swap", "done", "starved"}
        /\ fed = Len(msg) => pc = "failed"
        /\ (pc = "failed" /\ Appended # << >>) =>
              /\ err = "InvalidArraySeparator"
              /\ Len(Appended) = 1

C10_Witness ==
    /\ kind = "array"
    /\ src.defect = "nosep"
    /\ calls = 2
    /\ pc = "failed"
    /\ err = "InvalidArraySeparator"
    /\ arr.out = <<src.items[1].val>>

\* ------------------------------------------------------------------------
\* Claims about ParseObject

\* The members of the message written with the key of field k.
Occurrences(k) ==
    {i \in 1..Len(src.members) : src.members[i].key = schema[k].key}

\* Every key of the message is a key of the schema.
KeysKnown ==
    \A i \in 1..Len(src.members) :
        \E k \in 1..Len(schema) : schema[k].key = src.members[i].key

\* A required field whose key the message does not have.
Missing == \E k \in 1..Len(schema) : schema[k].required /\ Occurrences(k) = {}

DistinctKeys ==
    \A i, j \in 1..Len(src.members) :
        i # j => src.members[i].key # src.members[j].key

\* The value the message gives field k last.
LastValue(k) ==
    LET i == CHOOSE n \in Occurrences(k) : \A o \in Occurrences(k) : o <= n
    IN  Unwrap(schema[k].kind, src.members[i].val)

\* No value of the message is written with an exponent.
NoExponent ==
    \A i \in 1..Len(src.members) :
        \A n \in 1..Len(src.members[i].vtxt) :
            src.members[i].vtxt[n] \notin {101, 69}

\* The record a fresh ParseObject extracts from the message scanned as a
\* single span.
ObjectExtracted(sc, r) ==
    [ret |-> r.ret, err |-> r.err,
     alt |-> IF r.err = NoError /\ r.ret # Null
             THEN ObjectSwap(sc, r.obj, RecordInit(sc)).alt
             ELSE RecordInit(sc)]

WholeObject(sc, m) ==
    ObjectExtracted(sc, ObjectScan(sc, ObjectInit(sc), PoolInit, m, 0))

\* C1: for every valid object message and every split position, the first
\* Scan suspends, the second completes, and Swap then yields the record
\* (values and given flags) a single-span scan of the whole message yields.
C1_ObjectChunkingIdempotence ==
    (kind = "object" /\ KeysKnown /\ ~Missing) =>
        /\ pc \notin {"failed", "starved"}
        /\ (calls = 1 /\ cut < Len(msg)) => ret = Null
        /\ pc = "done" =>
              /\ WholeObject(schema, msg).err = NoError
              /\ alt = WholeObject(schema, msg).alt

\* C4: when Scan consumes the closing '}' it raises RequiredKeyNotGiven if
\* and only if a required field of the schema has not been given in the
\* message; otherwise it returns the position past the '}' and is finished.
C4_RequiredFieldEnforcement ==
    (kind = "object" /\ calls >= 1) =>
        /\ err = "RequiredKeyNotGiven" =>
              /\ pc = "failed"
              /\ ret = Null
              /\ \E k \in 1..Len(schema) : schema[k].required /\ ~obj.out[k].given
              /\ KeysKnown => Missing
        /\ ret # Null =>
              /\ ret = Len(msg)
              /\ obj.finished
              /\ \A k \in 1..Len(schema) :
                    schema[k].required =>
                        IF pc = "swap" THEN obj.out[k].given ELSE alt[k].given
              /\ KeysKnown => ~Missing
        /\ (KeysKnown /\ fed = Len(msg) /\ err \in {NoError, "RequiredKeyNotGiven"}) =>
              IF Missing THEN err = "RequiredKeyNotGiven" ELSE ret = Len(msg)
        /\ (KeysKnown /\ cut = Len(msg)) => err \in {NoError, "RequiredKeyNotGiven"}

C4_Witness ==
    /\ kind = "object"
    /\ calls = 2
    /\ err = "RequiredKeyNotGiven"
    /\ Len(src.members) >= 1
    /\ \E k \in 1..Len(schema) : obj.out[k].given

\* C5: in the record Swap extracts after a completed message a field is
\* given if and only if its key occurred in the message, a float field
\* whose key occurred holds the value decoded for that key, and a field
\* whose key did not occur is not given.
C5_GivenFlagCorrectness ==
    (kind = "object" /\ pc = "done") =>
        \A k \in 1..Len(schema) :
            /\ alt[k].given <=> Occurrences(k) # {}
            /\ (schema[k].kind = "float" /\ Cardinality(Occurrences(k)) = 1) =>
                  alt[k].value = LastValue(k)

\* The permutations of 1..n, as tuples.
Perms(n) ==
    {t \in [1..n -> 1..n] : \A i, j \in 1..n : i # j => t[i] # t[j]}

\* C6: for a message in which each key occurs at most once, every permutation
\* of the message's key/value pairs decodes to the same record.
C6_FieldOrderIndependence ==
    (kind = "object" /\ DistinctKeys /\ pc = "done") =>
        \A t \in Perms(Len(src.members)) :
            LET w == WholeObject(schema,
                         ObjectText([i \in 1..Len(src.members) |-> src.members[t[i]]],
                                    src.gap))
            IN  /\ w.err = NoError
                /\ w.alt = alt

\* C7: a message in which a key of the schema occurs more than once is
\* accepted without error, and the field extracted holds the value of the
\* last occurrence, for KeyValue fields and for KeyContainerValue fields.
C7_LastWriteWins ==
    (/\ kind = "object"
     /\ KeysKnown
     /\ ~Missing
     /\ \E k \in 1..Len(schema) : Cardinality(Occurrences(k)) >= 2) =>
        /\ (calls >= 1 /\ (cut = Len(msg) \/ NoExponent)) =>
              /\ err = NoError
              /\ fed = Len(msg) => ret = Len(msg)
        /\ pc = "done" =>
              \A k \in 1..Len(schema) :
                  Occurrences(k) # {} =>
                      /\ alt[k].given
                      /\ alt[k].value = LastValue(k)

C7_Witness ==
    /\ kind = "object"
    /\ pc = "done"
    /\ \E k \in 1..Len(schema) :
          /\ schema[k].kind = "array"
          /\ Cardinality(Occurrences(k)) >= 2
          /\ \E i \in Occurrences(k) : src.members[i].val.a # alt[k].value
          /\ alt[k].value # << >>

\* C8: a member whose key, decoded, equals none of the keys of the schema
\* makes Scan raise InvalidKey when the key string completes, before the
\* ':' or any part of the value is consumed; the message is never accepted.
C8_UnknownKeyRejected ==
    (kind = "object" /\ ~KeysKnown) =>
        /\ pc \notin {"swap", "done"}
        /\ (calls >= 1 /\ cut = Len(msg)) =>
              /\ pc = "failed"
              /\ err = "InvalidKey"
              /\ obj.state = "ExpectKey"

\* ------------------------------------------------------------------------
\* Claims about extraction from the arrays

\* The finished flag of the instance driven.
DrivenFinished == IF kind = "array" THEN arr.finished ELSE carr.finished

C12_ObjectExtractionGuard ==
    (kind = "object" /\ calls >= 1) =>
        /\ pc # "early"
        /\ pc = "refused" =>
              /\ err = "NotFinished"
              /\ alt = RecordInit(schema)

\* C15: every ParseObject::Swap hands the caller the record as the parser
\* held it, with the fields decoded so far, and leaves the parser a record
\* with the given flag of every field false and every value defaulted.
C15_ObjectExtractionResets ==
    [][(kind = "object" /\ pc' \in {"done", "early"} /\ pc \notin {"done", "early"}) =>
          /\ alt' = obj.out
          /\ obj'.out = RecordInit(schema)
          /\ \A k \in 1..Len(schema) : ~obj'.out[k].given]_vars

C15_Witness ==
    /\ kind = "object"
    /\ pc = "done"
    /\ \E k \in 1..Len(schema) : alt[k].given /\ alt[k].value = LastValue(k)
    /\ \A k \in 1..Len(schema) : ~obj.out[k].given

\* ------------------------------------------------------------------------
\* Claims about reuse

\* Scan's result with its position counted from the start of the message.
Shifted(r, c) == [r EXCEPT !.ret = IF @ = Null THEN Null ELSE c + @]

\* What a ParseArray<ParseFloat> as constructed, with a pool as
\* constructed, returns from the call that ends the delivery of m cut at c:
\* the second call where the first one has suspended before the end of m.
FreshArrayResumed(m, c, r) ==
    IF r.err # NoError \/ r.ret # Null \/ c = Len(m) THEN r
    ELSE Shifted(ArrayScan(r.arr, r.pool, SubSeq(m, c + 1, Len(m)), 0), c)

FreshArrayFirst(m, c) == ArrayScan(ArrayInit, PoolInit, SubSeq(m, 1, c), 0)

FreshArray(m, c, n) ==
    IF n = 1 THEN FreshArrayFirst(m, c)
    ELSE FreshArrayResumed(m, c, FreshArrayFirst(m, c))

\* The instance agrees with the result r of the fresh one.
AgreesWithArray(r) ==
    /\ ret = r.ret
    /\ err = r.err
    /\ IF pc = "done"
       THEN alt = r.arr.out /\ arr = [r.arr EXCEPT !.out = << >>]
       ELSE arr = r.arr

FreshObjectResumed(sc, m, c, r) ==
    IF r.err # NoError \/ r.ret # Null \/ c = Len(m) THEN r
    ELSE Shifted(ObjectScan(sc, r.obj, r.pool, SubSeq(m, c + 1, Len(m)), 0), c)

FreshObjectFirst(sc, m, c) ==
    ObjectScan(sc, ObjectInit(sc), PoolInit, SubSeq(m, 1, c), 0)

FreshObject(sc, m, c, n) ==
    IF n = 1 THEN FreshObjectFirst(sc, m, c)
    ELSE FreshObjectResumed(sc, m, c, FreshObjectFirst(sc, m, c))

\* The instance agrees with the result r of the fresh one.
AgreesWithObject(r) ==
    /\ ret = r.ret
    /\ err = r.err
    /\ IF pc = "done"
       THEN alt = r.obj.out /\ obj = [r.obj EXCEPT !.out = RecordInit(schema)]
       ELSE obj = r.obj

\* C14: when Scan reports completion, state, activating and active are
\* NotStarted, -1 and -1 again, and a following message scanned by the same
\* instance after Swap decodes to what a fresh instance gives: after every
\* call, and after the Swap, the instance, the position or exception and the
\* record are those of a freshly constructed instance given the same spans.
C14_ObjectReuse ==
    kind = "object" =>
        /\ ret # Null =>
              /\ obj.state = "NotStarted"
              /\ obj.activating = -1
              /\ obj.active = -1
        /\ (reused /\ calls >= 1) =>
              AgreesWithObject(FreshObject(schema, msg, cut, calls))

C14_Witness ==
    /\ kind = "object"
    /\ reused
    /\ calls = 2
    /\ pc = "done"
    /\ \E k \in 1..Len(schema) :
          /\ schema[k].kind = "array"
          /\ alt[k].given
          /\ alt[k].value # << >>
    /\ \E k \in 1..Len(schema) : ~alt[k].given


\* ------------------------------------------------------------------------
\* ParseString: the \u escape

Continuation(b) == 128 <= b /\ b <= 191

\* out is the UTF-8 form of value: one byte below 0x80, two bytes below
\* 0x800, three bytes from 0x800 on.
IsUtf8Of(out, value) ==
    IF value < 128 THEN out = <<value>>
    ELSE IF value < 2048
    THEN /\ Len(out) = 2
         /\ 192 <= out[1] /\ out[1] <= 223 /\ Continuation(out[2])
         /\ (out[1] - 192) * 64 + (out[2] - 128) = value
    ELSE /\ Len(out) = 3
         /\ 224 <= out[1] /\ out[1] <= 239
         /\ Continuation(out[2]) /\ Continuation(out[3])
         /\ (out[1] - 224) * 4096 + (out[2] - 128) * 64 + (out[3] - 128) = value

\* The encodings the tests of the \u escape give.
Utf8Examples ==
    {<<121, <<121>> >>, <<128, <<194, 128>> >>, <<2047, <<223, 191>> >>,
     <<2048, <<224, 160, 128>> >>, <<65535, <<239, 191, 191>> >>}

\* C16: a string whose body is one \u escape of four hexadecimal digits, in
\* upper or lower case, is accepted once its closing quote has been handed
\* over, and the decoded string is the UTF-8 form of the digits' value: one
\* byte below 0x80, two bytes below 0x800, three bytes from 0x800 on.
C16_UnicodeEscapeEncoding ==
    (kind = "string" /\ src.fam = "unicode") =>
        /\ err = NoError
        /\ pc = "done" <=> fed >= Len(src.txt)
        /\ pc = "done" =>
              /\ ret = Len(src.txt)
              /\ IsUtf8Of(pool.sValue, src.value)
              /\ \A x \in Utf8Examples :
                    src.value = x[1] => pool.sValue = x[2]

C16_Witness ==
    /\ kind = "string" /\ src.fam = "unicode"
    /\ src.value = 2047 /\ ~src.upper
    /\ cut = 5 /\ calls = 2
    /\ pc = "done"
    /\ pool.sValue = <<223, 191>>


\* ------------------------------------------------------------------------
\* ParseString: escapes and malformed tokens

\* The bytes '"', '/', '\\', 'b', 'f', 'n', 'r', 't' and 'u'.
AcceptedEscapes == {34, 47, 92, 98, 102, 110, 114, 116, 117}

\* C17: the byte after a backslash raises StringEscape unless it is one of
\* '"', '/', '\\', 'b', 'f', 'n', 'r', 't', 'u', which raise nothing; a \u
\* escape one of whose four digits is no hexadecimal digit raises
\* StringHexDigits when the fourth of them is handed over, and nothing
\* before.
C17_EscapeValidation ==
    /\ (kind = "string" /\ src.fam = "escape") =>
          err = IF fed >= 3 /\ src.byte \notin AcceptedEscapes
                THEN "StringEscape" ELSE NoError
    /\ (kind = "string" /\ src.fam = "hexdigit") =>
          err = IF fed >= 7 THEN "StringHexDigits" ELSE NoError

C17_Witness ==
    /\ kind = "string" /\ src.fam = "escape"
    /\ src.byte = 97
    /\ cut = 2 /\ calls = 2
    /\ pc = "failed" /\ err = "StringEscape"


\* C18: Scan on a token whose first byte is not '"' raises StringStart in
\* its first call, whatever the byte and however long the span; a byte below
\* 0x20 in the body outside an escape raises StringInvalidCharacter in the
\* call that receives it, and nothing is raised before it.
C18_StartAndControlCharacter ==
    /\ (kind = "string" /\ src.fam = "nostart" /\ calls >= 1) =>
          /\ calls = 1 /\ pc = "failed" /\ err = "StringStart"
          /\ ~pool.began
    /\ (kind = "string" /\ src.fam = "control") =>
          err = IF fed >= src.at + 2 THEN "StringInvalidCharacter"
                ELSE NoError

C18_Witness ==
    /\ kind = "string" /\ src.fam = "control"
    /\ src.byte = 31 /\ src.at = 3
    /\ cut = 4 /\ calls = 2
    /\ pc = "failed" /\ err = "StringInvalidCharacter"


\* ------------------------------------------------------------------------
\* ParseString: a literal handed over in two spans

\* The position and the decoded string Scan has given in r.
StringExtracted(r) == [ret |-> r.ret, err |-> r.err, out |-> r.pool.sValue]

\* Scan of the whole message in one span by a scanner as constructed.
WholeString(m) == StringExtracted(StringScan(PoolInit, m, 0))

\* C19: for every valid literal and every split position after the opening
\* quote, Scan raises nothing, completes in the call that receives the closing
\* quote, and then the position and the decoded string are those of the scan
\* of the message in one span, and escaped, count and began are as
\* constructed.
C19_StringSplitResumption ==
    (kind = "string" /\ src.fam \in {"plain", "unicode"}) =>
        /\ err = NoError
        /\ pc = "done" <=> fed >= Len(src.txt)
        /\ pc = "done" =>
              /\ [ret |-> ret, err |-> err, out |-> pool.sValue]
                    = WholeString(msg)
              /\ ret = Len(src.txt)
              /\ src.fam = "plain" => pool.sValue = src.val
              /\ ~pool.escaped /\ pool.count = -1 /\ ~pool.began

C19_Witness ==
    /\ kind = "string" /\ src.fam = "plain"
    /\ src.txt = <<34, 120, 92, 117, 48, 48, 101, 57, 34>>
    /\ cut = 5 /\ calls = 2
    /\ pc = "done"
    /\ pool.sValue = <<120, 195, 169>>


\* ------------------------------------------------------------------------
\* SkipWhitespace

\* The span of the latest Scan call: [LastBegin, fed).
LastBegin == IF calls <= 1 THEN 0 ELSE cut
LastSpan == SubSeq(msg, LastBegin + 1, fed)

\* The offsets in s of the bytes other than space, tab, line feed and
\* carriage return.
NonBlank(s) == {i \in 1..Len(s) : s[i] \notin {32, 9, 10, 13}}

\* C20: every SkipWhitespace::Scan call raises nothing and returns the
\* position of the first byte of its span that is none of 0x20, 0x09, 0x0A
\* and 0x0D; it returns the suspension sentinel if and only if the span has
\* no such byte, the empty span included.
C20_WhitespaceScanner ==
    (kind = "space" /\ calls >= 1) =>
        /\ err = NoError
        /\ ret = Null <=> NonBlank(LastSpan) = {}
        /\ \A i \in NonBlank(LastSpan) :
              (\A j \in NonBlank(LastSpan) : i <= j) => ret = LastBegin + i - 1
        /\ pool.wFinished <=> ret # Null

C20_Witness ==
    /\ kind = "space"
    /\ src.ws = <<9, 13>> /\ src.rest = <<11, 32, 122>>
    /\ cut = 1 /\ calls = 2
    /\ pc = "done" /\ ret = 2


\* ------------------------------------------------------------------------
\* ParseFloat: spellings other than decimal

\* C21: a hexadecimal-float, inf or nan spelling followed by a separator
\* never makes ParseFloat::Scan return a position, and once the separator has
\* been handed over InvalidFloat has been raised, in one span or in two.
C21_FloatAlphabetRestriction ==
    (kind = "float" /\ "fam" \in DOMAIN src.lit
        /\ src.lit.fam \in {"hex", "inf", "nan"}) =>
        /\ ret = Null
        /\ fed = Len(msg) => err = "InvalidFloat"


\* The decimal literals: an optional sign, digits with an optional point and
\* at least one digit, and an optional exponent of e, an optional sign and
\* digits.
AllDigits(s) == \A i \in 1..Len(s) : 48 <= s[i] /\ s[i] <= 57

IsMantissa(s) ==
    \/ s # << >> /\ AllDigits(s)
    \/ \E k \in 1..Len(s) :
          /\ s[k] = 46 /\ Len(s) >= 2
          /\ AllDigits(SubSeq(s, 1, k - 1))
          /\ AllDigits(SubSeq(s, k + 1, Len(s)))

Unsigned(s) == IF s # << >> /\ s[1] \in {43, 45} THEN Tail(s) ELSE s

IsExponent(s) ==
    \/ s = << >>
    \/ /\ s[1] \in {101, 69}
       /\ Unsigned(Tail(s)) # << >>
       /\ AllDigits(Unsigned(Tail(s)))

IsDecimal(s) ==
    \E k \in 0..Len(Unsigned(s)) :
        /\ IsMantissa(SubSeq(Unsigned(s), 1, k))
        /\ IsExponent(SubSeq(Unsigned(s), k + 1, Len(Unsigned(s))))

\* C22: a run of number characters whose first part was buffered and whose
\* end the second call meets before End is converted as a whole: the call
\* returns the position after the run if the run is a decimal literal and
\* raises InvalidFloat if it is not, whatever number it starts with.
C22_FloatResumedConversionExact ==
    (kind = "float" /\ "fam" \in DOMAIN src.lit /\ src.lit.fam = "run"
        /\ calls = 2) =>
        IF IsDecimal(src.lit.txt)
        THEN pc = "done" /\ err = NoError /\ ret = Len(src.lit.txt)
        ELSE pc = "failed" /\ err = "InvalidFloat" /\ ret = Null

C22_Witness ==
    /\ kind = "float" /\ "fam" \in DOMAIN src.lit
    /\ src.lit.txt = <<49, 46, 57, 101, 101, 45, 50>>
    /\ cut = 3 /\ calls = 2
    /\ pc = "failed" /\ err = "InvalidFloat"
    /\ pool.buffer = src.lit.txt


\* ------------------------------------------------------------------------
\* The position a Scan call returns

\* C23 (as stated): every Scan call that returns a position returns one
\* greater than the Begin it was given.
C23_StrictProgress ==
    (calls >= 1 /\ ret # Null) => ret > LastBegin

\* C23 (amended): every Scan call that returns a position returns one in
\* [Begin, End]. ParseString, ParseArray, ParseContainerArray and ParseObject
\* return one greater than Begin, and so does ParseFloat on a token that
\* starts in the span; SkipWhitespace returns Begin exactly when the span
\* starts with a byte that is no white space, and ParseFloat returns Begin
\* exactly when the token was buffered by an earlier call and the span starts
\* with a byte that is no number character.
C23_ProgressOrBegin ==
    (calls >= 1 /\ ret # Null) =>
        /\ LastBegin <= ret /\ ret <= fed
        /\ ret = LastBegin <=>
              \/ kind = "space" /\ LastSpan[1] \notin {32, 9, 10, 13}
              \/ /\ kind = "float" /\ calls = 2
                 /\ LastSpan[1] \notin (48..57) \cup {46, 101, 69, 43, 45}

C23_Witness ==
    /\ kind = "float" /\ calls = 2
    /\ src.lit.txt = <<49, 46>> /\ src.sep = 44
    /\ cut = 2
    /\ pc = "done" /\ ret = 2


\* ------------------------------------------------------------------------
\* ParseObject: the bytes between the members

\* The message is an object with the fault d.
Faulty(d) == kind = "object" /\ "defect" \in DOMAIN src /\ src.defect = d

\* The record of the message's members: a field is given if its key occurs,
\* with the value of the last occurrence.
MembersRecord(r) ==
    \A k \in 1..Len(schema) :
        /\ r[k].given <=> Occurrences(k) # {}
        /\ r[k].given => r[k].value = LastValue(k)

\* C24: a '}' met in state PreKey ends the object: an object without
\* members, and an object whose last member is followed by a ',' before the
\* '}', go to the completion check, which raises RequiredKeyNotGiven if a
\* required key is missing and otherwise returns the position after the '}'
\* with the record of the members; the '}' is never handed to the key's
\* scanner.
C24_ObjectClosingInPreKey ==
    (kind = "object" /\ (Faulty("trailing") \/ src.members = << >>)) =>
        /\ err # "StringStart"
        /\ NoExponent => err \in {NoError, "RequiredKeyNotGiven"}
        /\ (NoExponent /\ fed = Len(msg)) =>
              IF Missing
              THEN pc = "failed" /\ err = "RequiredKeyNotGiven"
              ELSE /\ err = NoError /\ ret = Len(msg)
                   /\ pc = "done" => MembersRecord(alt)

C24_Witness ==
    /\ Faulty("trailing")
    /\ src.gap = <<32>>
    /\ fed >= 1 /\ cut = Len(msg) - 2 /\ msg[cut] = 44
    /\ calls = 2 /\ pc = "done"
    /\ \E k \in 1..Len(schema) : alt[k].given /\ schema[k].kind = "string"


\* Where the byte src.junk stands in the message, counted from 1.
JunkAt ==
    IF src.defect = "value"
    THEN 1 + Len(src.gap) + Len(MemberText(src.members[1], src.gap))
           + Len(src.gap) + 1
    ELSE 1 + Len(src.gap) + Len(src.members[1].ktxt) + Len(src.gap) + 1

\* C25: after a value and optional white space a byte other than '}' and ','
\* raises InvalidValueSeparator in the call that receives it; a ',' leaves
\* the parser in PreKey, and a '}' leads to the completion check. After a
\* key and optional white space a byte other than ':' raises
\* InvalidKeySeparator in the call that receives it.
C25_ObjectSeparators ==
    /\ Faulty("value") =>
          /\ fed >= JunkAt => err # NoError
          /\ NoExponent =>
                err = IF fed >= JunkAt THEN "InvalidValueSeparator" ELSE NoError
          /\ err = "InvalidValueSeparator" => obj.state = "ExpectComma"
    /\ Faulty("colon") =>
          /\ err = IF fed >= JunkAt THEN "InvalidKeySeparator" ELSE NoError
          /\ err = "InvalidKeySeparator" => obj.state = "ExpectColon"
    /\ (kind = "object" /\ calls >= 1 /\ ret = Null /\ err = NoError
          /\ msg[fed] = 44) => obj.state = "PreKey"
    /\ (kind = "object" /\ "defect" \notin DOMAIN src /\ src.members # << >>
          /\ KeysKnown /\ NoExponent /\ fed = Len(msg)) =>
          IF Missing THEN err = "RequiredKeyNotGiven"
          ELSE err = NoError /\ ret = Len(msg)

C25_Witness ==
    /\ Faulty("value")
    /\ src.junk = 58 /\ src.gap = <<32>>
    /\ cut = JunkAt - 1 /\ calls = 2
    /\ pc = "failed" /\ err = "InvalidValueSeparator"
    /\ obj.state = "ExpectComma"


\* ------------------------------------------------------------------------
\* ParseObject: the state kept over a suspension

\* A stretch of n bytes of a message with the state the parser is handling
\* when the input ends inside the stretch (mid) and at its end (end).
Stretch(n, mid, end) == [n |-> n, mid |-> mid, end |-> end]

\* The stretches of a member and of the ',' after it: key, ':', value, ','
\* and the white space after each.  A number is undecided until the byte
\* after it has been seen; a string and an array end with their last byte.
MemberLayout(m, gap) ==
    << Stretch(Len(m.ktxt), "ExpectKey", "PreColon"),
       Stretch(Len(gap), "PreColon", "PreColon"),
       Stretch(1, "PreValue", "PreValue"),
       Stretch(Len(gap), "PreValue", "PreValue"),
       Stretch(Len(m.vtxt), "ExpectValue",
               IF m.vtxt[1] \in {34, 91} THEN "PreComma" ELSE "ExpectValue"),
       Stretch(Len(gap), "PreComma", "PreComma"),
       Stretch(1, "PreKey", "PreKey"),
       Stretch(Len(gap), "PreKey", "PreKey") >>

RECURSIVE MembersLayout(_, _)
MembersLayout(members, gap) ==
    IF members = << >> THEN << >>
    ELSE MemberLayout(Head(members), gap) \o MembersLayout(Tail(members), gap)

\* The stretches of a message of ObjectText: '{', white space, and the
\* members, or white space again when there is none.
ObjectLayout(members, gap) ==
    <<Stretch(1, "PreKey", "PreKey"), Stretch(Len(gap), "PreKey", "PreKey")>>
        \o IF members = << >> THEN <<Stretch(Len(gap), "PreKey", "PreKey")>>
           ELSE MembersLayout(members, gap)

\* The state being handled when the input ends after p bytes of layout.
RECURSIVE StateAt(_, _)
StateAt(layout, p) ==
    IF layout = << >> THEN "NotStarted"
    ELSE IF p < Head(layout).n THEN Head(layout).mid
    ELSE IF p = Head(layout).n /\ p > 0 THEN Head(layout).end
    ELSE StateAt(Tail(layout), p - Head(layout).n)

\* C26: when ParseObject::Scan returns the suspension sentinel, the stored
\* state is the state that was being handled when the input ran out (PreKey,
\* PreColon, PreValue or PreComma in white space, ExpectKey inside a key,
\* ExpectValue inside a value), the parser is not finished, and the next call
\* goes on from that state: the record extracted in the end is the record
\* of the scan of the message in one span.
C26_SuspensionPreservesState ==
    (kind = "object" /\ calls >= 1
        /\ ("defect" \in DOMAIN src => src.defect = "trailing")) =>
        /\ (ret = Null /\ err = NoError) =>
              /\ obj.state =
                    StateAt(ObjectLayout(src.members, src.gap), fed)
              /\ ~obj.finished
        /\ (NoExponent /\ pc = "done") =>
              alt = WholeObject(schema, msg).alt

C26_Witness ==
    /\ kind = "object" /\ "defect" \notin DOMAIN src
    /\ calls = 1 /\ ret = Null /\ err = NoError
    /\ src.gap = <<32>>
    /\ obj.state = "PreColon"
    /\ msg[fed] = 32


\* ------------------------------------------------------------------------
\* The pool's buffer

NumberByte(c) == c \in (48..57) \cup {46, 101, 69, 43, 45}

\* C27: after every call of a use without exception, the pool's buffer is
\* empty unless exactly one leaf token, a number or a string, is undecided;
\* it is empty when the call has returned a position; and with a number
\* undecided it holds exactly the bytes of that number handed over so far,
\* so it was empty when the number began.
C27_BufferDiscipline ==
    (err = NoError /\ calls >= 1) =>
        /\ ret # Null => pool.buffer = << >>
        /\ pool.buffer # << >> => pool.fFinished # pool.sFinished
        /\ ~(~pool.fFinished /\ ~pool.sFinished)
        /\ (pool.buffer # << >> /\ ~pool.fFinished) =>
              /\ Len(pool.buffer) <= fed
              /\ pool.buffer = SubSeq(msg, fed - Len(pool.buffer) + 1, fed)
              /\ \A i \in 1..Len(pool.buffer) : NumberByte(pool.buffer[i])
              /\ fed > Len(pool.buffer) =>
                    ~NumberByte(msg[fed - Len(pool.buffer)])
        /\ (kind = "string" /\ src.fam = "plain") =>
              /\ Len(pool.sValue \o pool.buffer) <= Len(src.val)
              /\ pool.sValue \o pool.buffer
                    = SubSeq(src.val, 1, Len(pool.sValue \o pool.buffer))

C27_Witness ==
    /\ kind = "object"
    /\ calls = 1 /\ ret = Null /\ err = NoError
    /\ obj.state = "ExpectValue"
    /\ pool.buffer = <<49>> /\ ~pool.fFinished /\ pool.sFinished
    /\ \E k \in 1..Len(schema) : obj.out[k].given /\ schema[k].kind = "string"


\* ------------------------------------------------------------------------
\* The pool's value slot after a value has been taken

\* The message has been scanned to its end without exception.
Completed == calls >= 1 /\ err = NoError /\ pc \in {"swap", "done"}

\* The field of the schema the i-th member of the message is for.
FieldOf(i) ==
    CHOOSE k \in 1..Len(schema) : schema[k].key = src.members[i].key

\* The members whose scan writes the pool's float slot: the numbers and the
\* arrays that have an element.
SlotWriters ==
    {i \in 1..Len(src.members) :
        \/ schema[FieldOf(i)].kind = "float"
        \/ schema[FieldOf(i)].kind = "array" /\ src.members[i].val.a # << >>}

Latest(S) == CHOOSE n \in S : \A o \in S : o <= n

\* What the float slot holds when the i-th member has been stored: the last
\* element of an array, which was copied; for a number, what the record's
\* field held before the swap.
SlotAfter(i) ==
    IF schema[FieldOf(i)].kind = "array"
    THEN src.members[i].val.a[Len(src.members[i].val.a)]
    ELSE IF {j \in Occurrences(FieldOf(i)) : j < i} = {} THEN FloatZero
    ELSE src.members[Latest({j \in Occurrences(FieldOf(i)) : j < i})].val.f

IsPrefix(s, u) == Len(s) <= Len(u) /\ s = SubSeq(u, 1, Len(s))

\* The number of bytes of the message up to the end of the i-th item.
RECURSIVE ItemEnd(_)
ItemEnd(i) ==
    IF i = 1 THEN 1 + Len(src.gap) + Len(src.items[1].txt)
    ELSE ItemEnd(i - 1) + Len(src.gap) + 1 + Len(src.gap)
             + Len(src.items[i].txt)

\* The items that are decided when p bytes have been handed over: a number
\* is decided by the byte after it.
Decided(p) == Cardinality({i \in 1..Len(src.items) : ItemEnd(i) < p})

\* C29: a Scan call changes the list of a ParseArray only by appending at
\* its end; after every call that raises nothing the list holds the values
\* of exactly the elements decided so far, in the order of the message,
\* whether an element was decided in the call that began it or after a
\* suspension; Swap hands out that list whole and leaves the empty list.
C29_SequenceAccumulationOrder ==
    [][kind = "array" =>
          /\ pc = "scan" =>
                /\ IsPrefix(arr.out, arr'.out)
                /\ (src.defect = "none" /\ err' = NoError) =>
                      arr'.out = SubSeq(Values(src.items), 1, Decided(fed'))
          /\ pc = "swap" =>
                /\ alt' = arr.out /\ arr'.out = << >>
                /\ src.defect = "none" => alt' = Values(src.items)]_vars

C29_Witness ==
    /\ kind = "array" /\ src.defect = "none"
    /\ Len(src.items) = 2
    /\ src.items[1].val # src.items[2].val
    /\ ItemEnd(1) + 1 < cut /\ cut < ItemEnd(2)
    /\ calls = 2 /\ pc = "done"
    /\ alt = Values(src.items)


\* ------------------------------------------------------------------------
\* ParseContainerArray: the nested list across a suspension

\* The nested list a fresh ParseContainerArray extracts from the message
\* scanned as a single span.
WholeCArray(m) ==
    Extracted(CArrayScan(CArrayInit, PoolInit, m, 0),
              CArraySwap(CArrayScan(CArrayInit, PoolInit, m, 0).arr, << >>))

\* C30: for every valid array of arrays of floats and every split position,
\* ParseContainerArray::Scan on the two parts followed by Swap raises
\* nothing and yields the nested list a single-span scan yields, each inner
\* list holding the values of its own outer element only.
C30_NestedSplitResumption ==
    (kind = "carray" /\ src.defect = "none") =>
        /\ pc \notin {"failed", "starved"}
        /\ pc = "done" =>
              /\ WholeCArray(msg).err = NoError
              /\ alt = WholeCArray(msg).alt
              /\ alt = Values(src.items)


\* ------------------------------------------------------------------------
\* The three ways a Scan call ends

\* C31: every Scan call of every scanner and combinator comes to an end on
\* the span it is given, reading no byte beyond the terminator (At has no
\* value there), and it ends in exactly one of three ways: it raises a
\* ParserException, it returns the suspension sentinel, or it returns a
\* position p with Begin <= p <= End.
C31_NonBlockingScan ==
    [][pc = "scan" =>
          /\ calls' = calls + 1
          /\ \/ err' # NoError /\ ret' = Null /\ pc' = "failed"
             \/ err' = NoError /\ ret' = Null /\ pc' \in {"scan", "starved"}
             \/ /\ err' = NoError /\ pc' \in {"swap", "done"}
                /\ fed <= ret' /\ ret' <= fed']_vars

C31_Witness ==
    /\ kind = "array" /\ calls = 2 /\ pc = "swap"
    /\ 0 < cut /\ cut < Len(msg)
    /\ err = NoError /\ ret = fed /\ fed = Len(msg)


\* ------------------------------------------------------------------------
\* Finished() after a Scan call

\* Finished() of the scanner the caller drives.
IsFinished ==
    CASE kind = "float"  -> pool.fFinished
      [] kind = "string" -> pool.sFinished
      [] kind = "space"  -> pool.wFinished
      [] kind = "array"  -> arr.finished
      [] kind = "carray" -> carr.finished
      [] kind = "object" -> obj.finished

\* Scan is the latest call made on the scanner, and it has raised nothing.
JustScanned ==
    /\ calls >= 1 /\ err = NoError
    /\ \/ pc \in {"scan", "starved", "swap"}
       \/ pc = "done" /\ kind \in {"float", "string", "space"}

\* C32: right after a Scan call on a leaf scanner, an array, a nested array
\* or an object has returned without an exception, Finished() is true if
\* and only if the call has returned a position and not the suspension
\* sentinel.
C32_FinishedAgreesWithReturn ==
    JustScanned => (IsFinished <=> ret # Null)

C32_Witness ==
    /\ kind = "object" /\ JustScanned
    /\ calls = 1 /\ ret = Null /\ ~obj.finished
    /\ obj.state = "ExpectValue"


\* ------------------------------------------------------------------------
\* ParseObject: the required keys of a later message

\* C33: of the messages one ParseObject instance scans one after the other,
\* with or without a Swap between them, each that lacks a required key
\* raises RequiredKeyNotGiven once it is scanned to its end: what an earlier
\* message has given never stands in for a key of a later one.
C33_RequiredKeyPerMessage ==
    (kind = "object" /\ reused /\ KeysKnown /\ NoExponent /\ Missing
        /\ fed = Len(msg)) =>
        pc = "failed" /\ err = "RequiredKeyNotGiven"


\* ------------------------------------------------------------------------
\* ParseObject: the key a member is resolved to

\* C34: a key is resolved to field k of the schema only if the decoded key
\* is, byte for byte, the key of field k: the field Scan is activating and
\* every field that has been given a value belong to a member of the message
\* with exactly that key, also when a decoded key holds a zero byte (from
\* \u0000) after the bytes of a key of the schema.
C34_ExactKeyMatching ==
    kind = "object" =>
        /\ obj.activating # -1 => Occurrences(obj.activating + 1) # {}
        /\ \A k \in 1..Len(schema) :
              (obj.out[k].given \/ (pc = "done" /\ alt[k].given)) =>
                  Occurrences(k) # {}


\* ------------------------------------------------------------------------
\* ParseObject: the diagnostics of the separators

\* C35: the exception raised where ':' is missing after a key carries the
\* diagnostic that names ':' as the expected character, and the exception
\* raised where neither ',' nor '}' follows a value carries the diagnostic
\* that names ',' as the expected character.
C35_DiagnosticNamesExpected ==
    /\ (Faulty("colon") /\ pc = "failed" /\ obj.state = "ExpectColon") =>
          What(err) = "Object, expected ':'"
    /\ (Faulty("value") /\ pc = "failed" /\ obj.state = "ExpectComma") =>
          What(err) = "Object, expected ','"


\* ------------------------------------------------------------------------
\* The empty span

\* C36: a Scan call with Begin == End on a string, an array, a nested array
\* or an object returns the suspension sentinel, raises nothing and changes
\* no state, before the scanner has started as well as in the middle of a
\* token.
C36_EmptySpanSuspends ==
    [][(pc = "scan" /\ fed' = fed /\ calls' = calls + 1) =>
          /\ err' = NoError
          /\ ret' = Null
          /\ <<pool, arr, carr, obj>>' = <<pool, arr, carr, obj>>]_vars


\* C37: on every call main makes to parser.Scan, End is the last byte of the
\* block and that byte is zero, Begin lies in the block, the bytes before
\* End are the bytes of the input the last read delivered, and Begin stands
\* at the first byte of the input no parser has passed yet.
C37_DriverTerminator ==
    (kind = "main" /\ pc = "scan") =>
        /\ Len(main.buffer) >= 1
        /\ main.buffer[Len(main.buffer)] = 0
        /\ 0 <= main.end /\ main.end < Len(main.buffer) - 1
        /\ MainSpan = SubSeq(msg, main.base + 1, fed)
        /\ main.base + main.end = main.seen

\* A block that ends inside the second message, scanned from the byte after
\* the first message's line feed.
C37_Witness ==
    /\ kind = "main" /\ pc = "scan"
    /\ Len(main.out) = 1
    /\ main.end = 2
    /\ Len(main.buffer) = block_size + 1
    /\ main.buffer[2] = 10
    /\ fed < Len(msg)

\* What a report says of its message, in the terms of Messages.
Outcome(report) ==
    CASE report.error = "No format nor extension in filename." -> "noformat"
      [] report.error = "maximum <= minimum" -> "range"
      [] report.error = "Unsupported format: " -> "unsupported"
      [] OTHER -> "read"

\* C38: a Scan that raises makes main write the diagnostic and return 1 with
\* nothing more reported, and main takes no step after it has returned;
\* processing a message, with or without an error of its own, writes exactly
\* one report and goes on with the loop; so the reports are those of the
\* messages before the first one the parser rejects, one each and in order,
\* and main returns 0 only with every message reported.
C38_DriverErrorPolicy ==
    [][kind = "main" =>
          /\ (pc = "scan" /\ err' # NoError) =>
                /\ pc' = "exit"
                /\ main'.status = 1
                /\ main'.what = What(err')
                /\ main'.out = main.out
          /\ pc # "exit"
          /\ pc = "process" =>
                /\ pc' = "skip"
                /\ main'.status = Null
                /\ Len(main'.out) = Len(main.out) + 1
                /\ SubSeq(main'.out, 1, Len(main.out)) = main.out
          /\ \A i \in 1..Len(main'.out) :
                /\ i <= Len(src.msgs)
                /\ Outcome(main'.out[i]) = src.msgs[i].want
          /\ (pc' = "exit" /\ main'.status = 0) =>
                Len(main'.out) = Len(src.msgs)
          /\ (pc' = "exit" /\ main'.status = 1) =>
                /\ Len(main'.out) < Len(src.msgs)
                /\ src.msgs[Len(main'.out) + 1].want = "throw"]_vars

\* A message without format or extension has been reported, and the next
\* message has made the parser raise: main has returned 1 with the one
\* report written, a third message left unread.
C38_Witness ==
    /\ kind = "main" /\ pc = "exit"
    /\ main.status = 1
    /\ err = "StringStart"
    /\ main.what = "Expected '\"'."
    /\ Len(main.out) = 1
    /\ main.out[1].error = "No format nor extension in filename."
    /\ Len(src.msgs) = 2
    /\ fed < Len(msg)

\* C39: in every state of a ParseObject the index the state uses names a
\* field of the schema: active in ExpectValue, activating in PreColon,
\* ExpectColon and PreValue; in NotStarted both are -1; and no scan has
\* asked for the scanner of a field the schema does not have.
C39_FieldIndexValidity ==
    kind = "object" =>
        /\ obj.state = "ExpectValue" =>
              0 <= obj.active /\ obj.active < Len(schema)
        /\ obj.state \in {"PreColon", "ExpectColon", "PreValue"} =>
              0 <= obj.activating /\ obj.activating < Len(schema)
        /\ obj.state = "NotStarted" =>
              obj.active = -1 /\ obj.activating = -1
        /\ err # "Undefined"

\* The second message of a parser, suspended between the colon and the
\* value of the schema's last field.
C39_Witness ==
    /\ kind = "object" /\ reused
    /\ pc = "scan" /\ calls = 1
    /\ obj.state = "PreValue"
    /\ Len(schema) >= 2
    /\ obj.activating = Len(schema) - 1
    /\ obj.active = -1

\* The bytes a string body stands for, read escape by escape; an escape the
\* body breaks off in stands for nothing yet.
RECURSIVE Decoded(_)
Decoded(t) ==
    IF t = << >> THEN << >>
    ELSE IF t[1] # 92 THEN <<t[1]>> \o Decoded(Tail(t))
    ELSE IF Len(t) < 2 THEN << >>
    ELSE IF t[2] # 117
    THEN <<EscapeChar(t[2])>> \o Decoded(SubSeq(t, 3, Len(t)))
    ELSE IF Len(t) < 6 THEN << >>
    ELSE Utf8(DigitsVal(SubSeq(t, 3, 6), 0, 4, 16, 0))
             \o Decoded(SubSeq(t, 7, Len(t)))

\* C40: after every Scan of a string that has not raised, the value slot
\* followed by the scratch buffer is the decoded body handed over so far
\* while the string is open, and once it is closed the slot is the whole
\* decoded string and the buffer is empty.
C40_StringBatchingPreservesContent ==
    (kind = "string" /\ calls >= 1 /\ err = NoError) =>
        /\ pc \in {"scan", "starved"} =>
              pool.sValue \o pool.buffer = Decoded(SubSeq(msg, 2, fed))
        /\ pc = "done" =>
              /\ pool.sValue = Decoded(SubSeq(msg, 2, ret - 1))
              /\ pool.buffer = << >>

\* A string of three pieces suspended with bytes both in the slot and in
\* the buffer.
C40_Witness ==
    /\ kind = "string" /\ pc = "scan" /\ calls = 1 /\ err = NoError
    /\ src.fam = "plain"
    /\ Len(pool.sValue) >= 1
    /\ Len(pool.buffer) >= 1
    /\ pool.sValue \o pool.buffer = Decoded(SubSeq(msg, 2, fed))

=============================================================================
